---- MODULE Spec2Model ----
(***************************************************************************)
(* A model of the finite-state-machine core of ncr (ncr_automata.hpp):     *)
(* genomes of state and transition genes, validate_genome, mutate_genome,  *)
(* and the realized machine with fsm_init, fsm_reset, fsm_run, fsm_free.   *)
(*                                                                         *)
(* Bit flags are modelled as sets of flag names (|= is union, ^= is the    *)
(* symmetric difference, the zero value is the empty set).  Pointers are   *)
(* object identities of a heap that records which objects were released.   *)
(***************************************************************************)
EXTENDS Integers, Sequences, FiniteSets, TLC

VARIABLES
    alphabet,         \* the basic_alphabet the genome is read against
    allowEmptyFinal,  \* the build's DFA_ALLOW_EMPTY_FINAL_STATE_SET
    genome,           \* the fsm_genome given to the operation (fsm.genome)
    val,              \* validate_genome: its call and what it returned
    mr,               \* mutate_genome: the mutation_rates, in percent
    max_nstates,      \* mutate_genome: its max_nstates argument
    mut,              \* mutate_genome: its locals and its position
    fsm,              \* the finite_state_machine (its genome is `genome`)
    heap,             \* the arenas allocated by fsm_translate, oldest first
    released,         \* how often each object was deleted
    log,              \* the caller's fsm_run_log
    call,             \* the last call on the fsm: arguments and return
    dfa,              \* dfa_minimize: its arguments, locals and position
    txt,              \* genome_to_str, genome_from_str: string and result
    word,             \* nth_string, str_to_symbols, Successive: call and result
    rnd               \* random_genome: its arguments, locals and position

vars == <<alphabet, allowEmptyFinal, genome, val, mr, max_nstates, mut,
          fsm, heap, released, log, call, dfa, txt, word, rnd>>

valVars == <<val>>
mutVars == <<mr, max_nstates, mut>>
fsmVars == <<fsm, heap, released, log, call>>
minVars == <<dfa>>
strVars == <<txt>>
wordVars == <<word, rnd>>

-----------------------------------------------------------------------------
(* Bounds of the model.                                                    *)

MaxStates == 2      \* state genes of an input genome
MaxTrans == 2       \* transition genes of an input genome
MaxMutTrans == 1    \* transition genes of a genome mutated at random
MaxInits == 2       \* calls of fsm_init on one finite_state_machine
MaxInput == 2       \* symbols of an input word of fsm_run
MaxNStates == 2     \* largest max_nstates of mutate_genome, n_states of random_genome
MaxDfaStates == 3   \* most states of a minimized automaton
MaxDfaTrans == 3    \* most transitions of a minimized automaton
MaxFairTrans == 2   \* most transitions where termination is checked
MaxDupStates == 4   \* most states of an automaton with duplicated states

MaxTxtId == 12      \* a state id of two decimal digits in a written genome
MaxLength == 3       \* longest string of nth_string with every index followed
MaxBeyond == 2       \* indices past the last string that are followed
LongLength == 54     \* a string length whose last index is no double
WideLength == 64     \* a length whose number of binary strings no size_t holds
MaxPasses == 6      \* most passes of the equivalence-set loop that are followed

-----------------------------------------------------------------------------
(* Alphabets, flags, genes.                                                *)

binary_alphabet ==
    [n_symbols |-> 2, n_input_symbols |-> 2, n_blank_symbols |-> 0]

binary_alphabet_incl_blank ==
    [n_symbols |-> 3, n_input_symbols |-> 2, n_blank_symbols |-> 1]

automaton_state_flags == {"IS_START", "IS_FINAL"}

fsm_validation_flags ==
    {"IS_NFA", "MISSING_STATES", "MISSING_TRANSITIONS",
     "MULTIPLE_STARTING_STATES", "MISSING_STARTING_STATE", "NO_FINAL_STATES",
     "TRANSITION_SOURCE_UNKNOWN", "TRANSITION_TARGET_UNKNOWN",
     "DUPLICATE_TRANSITION", "TRANSITION_SYMBOL_IS_UNKNOWN"}

\* the characters of the decimal digits
Digits == <<"0", "1", "2", "3", "4", "5", "6", "7", "8", "9">>

\* std::to_string of an unsigned number: its decimal digits, as characters
RECURSIVE to_string(_)
to_string(n) ==
    IF n < 10 THEN <<Digits[n + 1]>>
    ELSE Append(to_string(n \div 10), Digits[(n % 10) + 1])

\* a state_gene whose label follows its id, `std::to_string(id)[0]`, as it
\* does in every genome that genome_rewrite_labels or genome_from_str made
state_gene(i, f) == [id |-> i, label |-> to_string(i)[1], flag |-> f]

transition_gene(sf, sr, st, sw) ==
    [state_from |-> sf, symbol_read |-> sr, state_to |-> st, symbol_write |-> sw]

is_start(s) == "IS_START" \in s.flag

is_final(s) == "IS_FINAL" \in s.flag

to_tuple(t) == <<t.state_from, t.symbol_read, t.state_to, t.symbol_write>>

\* operator== of two transition genes: equality of the 4-tuples.
transition_eq(l, r) == to_tuple(l) = to_tuple(r)

\* the lexicographic < of two 4-tuples (std::tuple's operator<)
RECURSIVE tuple_less(_, _)
tuple_less(a, b) ==
    IF a = <<>> \/ b = <<>> THEN FALSE
    ELSE IF Head(a) # Head(b) THEN Head(a) < Head(b)
    ELSE tuple_less(Tail(a), Tail(b))

\* insertion of one gene into a sorted vector
RECURSIVE sort_insert(_, _)
sort_insert(t, ts) ==
    IF ts = <<>> THEN <<t>>
    ELSE IF tuple_less(to_tuple(t), to_tuple(Head(ts))) THEN <<t>> \o ts
    ELSE <<Head(ts)>> \o sort_insert(t, Tail(ts))

sort_transitions_mut(ts) == ts

\* sort(std::vector<transition_gene>&): ascending on the 4-tuple.  Genes that
\* compare equal are identical, so the result of std::sort is unique.
RECURSIVE sort_transitions(_)
sort_transitions(ts) ==
    IF ts = <<>> THEN <<>>
    ELSE sort_insert(Head(ts), sort_transitions(Tail(ts)))

\* a vector of transition genes is in the order sort leaves it in
is_sorted(ts) ==
    \A i \in DOMAIN ts : \A j \in DOMAIN ts :
        i < j => ~tuple_less(to_tuple(ts[j]), to_tuple(ts[i]))

-----------------------------------------------------------------------------
(* The genomes the operations are given.                                   *)

SeqsUpTo(S, n) == UNION {[1..k -> S] : k \in 0..n}

\* state genes in genome order, id = position, any flags
StateGeneSeqs(n) ==
    UNION {{[i \in 1..k |-> state_gene(i - 1, fl[i])] :
               fl \in [1..k -> SUBSET automaton_state_flags]} : k \in 0..n}

\* transition genes: endpoints 0..nst (nst itself names no state of a genome
\* of at most nst states), symbols 0..2 (2 is a blank or an unknown id)
TransitionGenes(nst) ==
    {transition_gene(sf, sr, st, sw) :
        sf \in 0..nst, sr \in 0..2, st \in 0..nst, sw \in 0..2}

\* the transition genes that differ from (0, 0, 0, 0) in their endpoints
\* only or in their symbols only
SimpleTransitionGenes(nst) ==
    {t \in TransitionGenes(nst) :
        \/ t.symbol_read = 0 /\ t.symbol_write = 0
        \/ t.state_from = 0 /\ t.state_to = 0}

SimpleGenomes(nst, ntr) ==
    {[states |-> ss, transitions |-> ts] :
        ss \in StateGeneSeqs(nst), ts \in SeqsUpTo(SimpleTransitionGenes(nst), ntr)}

Genomes(nst, ntr) ==
    {[states |-> ss, transitions |-> ts] :
        ss \in StateGeneSeqs(nst), ts \in SeqsUpTo(TransitionGenes(nst), ntr)}

-----------------------------------------------------------------------------
(* Mutation rates, random draws, and the locals of a mutation.             *)

RateNames ==
    {"delete_state", "create_state", "modify_state_start", "modify_state_accepting",
     "drop_transition", "spawn_transition", "modify_transition_source",
     "modify_transition_target", "modify_transition_symbol",
     "modify_transition_emission"}

\* a rate is a probability in percent: 0, strictly between 0 and 1, or 1
RateValues == {0, 50, 100}

\* unif_random(rng) lies in [0, 1): its smallest value and one next to 1
UnifSamples == {0, 99}

\* mutation_rates with every rate set to v
Rates(v) == [n \in RateNames |-> v]

NoRates == Rates(0)

\* choice(a, b, rng): any integer of [a, b]
choice(a, b) == a..b

\* `if (unif_random(rng) < rate) member = choice(lo, hi, rng)`: what member
\* can be afterwards
mutated_member(old, rate, lo, hi) ==
    {IF u < rate THEN c ELSE old : u \in UnifSamples, c \in choice(lo, hi)}

\* `if (unif_random(rng) < rate) flag ^= bit`: what flag can be afterwards
toggled_flag(flag, rate, bit) ==
    {IF u < rate THEN (flag \ {bit}) \cup ({bit} \ flag) ELSE flag : u \in UnifSamples}

contains(v, x) == \E i \in DOMAIN v : v[i] = x

NoMutation ==
    [pc |-> "none", origin_i |-> 0, states |-> <<>>, start_ids |-> <<>>,
     n_accepting_states |-> 0, state_counter |-> 0, removed_states |-> <<>>,
     state_id_map |-> <<>>, tmp_transitions |-> <<>>, j |-> 0, transitions |-> <<>>]

-----------------------------------------------------------------------------
(* The realized machine: pointers, arenas, finite_state_machine.           *)

fsm_run_flags ==
    {"ERROR_NOT_INITIALIZED", "ERROR_CURRENT_STATE_NOT_SET",
     "ERROR_NOT_IN_STARTING_STATE", "ERROR_NO_VIABLE_TRANSITION",
     "ERROR_NOT_IN_FINAL_STATE", "ERROR_INVALID_WORD"}

\* fsm_run_flags::OK
OK == {}

\* a state* or transition*: the arena (its number in heap) and the position
\* of the object in it; nullptr
NULL == [kind |-> "null", arena |-> 0, pos |-> 0]

state_ptr(a, i) == [kind |-> "state", arena |-> a, pos |-> i]

transition_ptr(a, i) == [kind |-> "transition", arena |-> a, pos |-> i]

\* the object a non-null pointer points to (its contents stay in heap after
\* its release, the pointer is then dangling)
deref(h, p) ==
    IF p.kind = "state" THEN h[p.arena].states[p.pos] ELSE h[p.arena].transitions[p.pos]

\* a default-constructed finite_state_machine
new_fsm ==
    [initialized |-> FALSE, current_state |-> NULL, states |-> <<>>,
     transitions |-> <<>>, starting_states |-> <<>>, accepting_states |-> <<>>,
     transition_table |-> <<>>]

empty_log == [trace |-> <<>>, input |-> <<>>, accepted |-> <<>>, output |-> <<>>]

no_call == [op |-> "none", status |-> "returned", result |-> OK, input |-> <<>>,
            error_logged |-> FALSE]

\* the objects deleted once, and those deleted again
no_release == [once |-> {}, twice |-> {}]

\* no call of dfa_minimize is in progress
NoDfa ==
    [pc |-> "none", direct |-> FALSE, states |-> <<>>, transitions |-> <<>>,
     successor_map |-> <<>>,
     current |-> [subsets |-> <<>>, subset_map |-> <<>>],
     next |-> [subsets |-> <<>>, subset_map |-> <<>>],
     passes |-> 0, merged_states |-> <<>>, merged_transitions |-> <<>>,
     input |-> "none", valid_state_ids |-> FALSE,
     encoded |-> [states |-> <<>>, transitions |-> <<>>]]

\* no genome is written to a string or read from one
NoTxt == [pc |-> "none", given |-> FALSE, str |-> <<>>,
          decoded |-> [states |-> <<>>, transitions |-> <<>>]]

\* no string of symbols is generated or converted
NoWord == [pc |-> "none"]

\* no call of random_genome is in progress
NoRnd == [pc |-> "none"]

\* no finite_state_machine is part of a validation or of a mutation
NoFsm ==
    /\ fsm = new_fsm /\ heap = <<>> /\ released = no_release /\ log = empty_log
    /\ call = no_call /\ dfa = NoDfa /\ txt = NoTxt /\ word = NoWord /\ rnd = NoRnd

-----------------------------------------------------------------------------
(* validate_genome                                                         *)

n_starts(g) == Cardinality({i \in DOMAIN g.states : is_start(g.states[i])})

n_finals(g) == Cardinality({i \in DOMAIN g.states : is_final(g.states[i])})

validate_missing(g) ==
    (IF Len(g.states) = 0 THEN {"MISSING_STATES"} ELSE {})
    \cup (IF Len(g.transitions) = 0 THEN {"MISSING_TRANSITIONS"} ELSE {})

validate_starts_mut(g) ==
    IF n_starts(g) = 0 THEN {"MISSING_STARTING_STATE"}
    ELSE IF n_starts(g) > 2 THEN {"MULTIPLE_STARTING_STATES"}
    ELSE {}

validate_starts(g) ==
    IF n_starts(g) = 0 THEN {"MISSING_STARTING_STATE"}
    ELSE IF n_starts(g) > 1 THEN {"MULTIPLE_STARTING_STATES"}
    ELSE {}

validate_finals(g, allow) ==
    IF ~allow /\ n_finals(g) = 0 THEN {"NO_FINAL_STATES"} ELSE {}

validate_endpoints(g) ==
    (IF \E i \in DOMAIN g.transitions : g.transitions[i].state_from >= Len(g.states)
       THEN {"TRANSITION_SOURCE_UNKNOWN"} ELSE {})
    \cup
    (IF \E i \in DOMAIN g.transitions : g.transitions[i].state_to >= Len(g.states)
       THEN {"TRANSITION_TARGET_UNKNOWN"} ELSE {})

validate_duplicates(g) ==
    IF Len(g.transitions) > 0 /\ Len(g.states) > 0
       /\ \E i \in DOMAIN g.transitions : \E j \in DOMAIN g.transitions :
             i < j /\ transition_eq(g.transitions[i], g.transitions[j])
    THEN {"DUPLICATE_TRANSITION"} ELSE {}

\* the index into ts_counter that a transition increments
ts_offset(a, t) == t.state_from * a.n_input_symbols + t.symbol_read

ts_counter_size(a, g) == Len(g.states) * a.n_input_symbols

\* ts_counter after the counting loop, for the increments that land in it
ts_counter(a, g) ==
    [k \in 0..(ts_counter_size(a, g) - 1) |->
        Cardinality({i \in DOMAIN g.transitions : ts_offset(a, g.transitions[i]) = k})]

\* the counting loop is entered and some increment lands outside ts_counter
ts_counter_overrun(a, g) ==
    /\ Len(g.transitions) > 0 /\ Len(g.states) > 0
    /\ \E i \in DOMAIN g.transitions :
          ts_offset(a, g.transitions[i]) >= ts_counter_size(a, g)

validate_nfa(a, g) ==
    IF Len(g.transitions) > 0 /\ Len(g.states) > 0
       /\ \E k \in DOMAIN ts_counter(a, g) : ts_counter(a, g)[k] > 1
    THEN {"IS_NFA"} ELSE {}

validate_symbols(a, g) ==
    IF \E i \in DOMAIN g.transitions :
          \/ g.transitions[i].symbol_read >= a.n_input_symbols
          \/ g.transitions[i].symbol_write >= a.n_input_symbols
    THEN {"TRANSITION_SYMBOL_IS_UNKNOWN"} ELSE {}

\* everything validate_genome ORs into its result except IS_NFA
validate_rest(a, g, allow) ==
    validate_missing(g) \cup validate_starts(g) \cup validate_finals(g, allow)
    \cup validate_endpoints(g) \cup validate_duplicates(g) \cup validate_symbols(a, g)

validate_genome(a, g, allow) == validate_rest(a, g, allow) \cup validate_nfa(a, g)

ValInit ==
    \* validate_genome reads n_input_symbols only, 2 in both alphabets
    /\ alphabet = binary_alphabet_incl_blank
    /\ allowEmptyFinal \in BOOLEAN
    /\ genome \in Genomes(MaxStates, MaxTrans)
    /\ val = [pc |-> "idle", result |-> {}, overrun |-> FALSE]
    /\ mr = NoRates /\ max_nstates = 0 /\ mut = NoMutation
    /\ NoFsm

\* A call of validate_genome whose increments all land inside ts_counter.
Validate ==
    /\ val.pc = "idle"
    /\ ~ts_counter_overrun(alphabet, genome)
    /\ val' = [pc |-> "returned",
               result |-> validate_genome(alphabet, genome, allowEmptyFinal),
               overrun |-> FALSE]
    /\ UNCHANGED <<alphabet, allowEmptyFinal, genome, mutVars, fsmVars, minVars, strVars,
                   wordVars>>

\* A call that increments past the end of ts_counter (undefined behaviour):
\* the process dies, or the stray increment is lost, or it is seen as a count.
ValidateOverrun ==
    /\ val.pc = "idle"
    /\ ts_counter_overrun(alphabet, genome)
    /\ \/ val' = [pc |-> "crashed", result |-> {}, overrun |-> TRUE]
       \/ \E nfa \in {validate_nfa(alphabet, genome), {"IS_NFA"}} :
             val' = [pc |-> "returned",
                     result |-> validate_rest(alphabet, genome, allowEmptyFinal) \cup nfa,
                     overrun |-> TRUE]
    /\ UNCHANGED <<alphabet, allowEmptyFinal, genome, mutVars, fsmVars, minVars, strVars,
                   wordVars>>

ValNext == Validate \/ ValidateOverrun

SpecVal == ValInit /\ [][ValNext]_vars

-----------------------------------------------------------------------------
(* mutate_genome = mutate_states, mutate_transitions, labels, sort         *)

\* the entry of mutate_genome and of mutate_states: everything is cleared
MutationStart == [NoMutation EXCEPT !.pc = "states"]

\* state_id_map as a function of the keys it holds
map_put(m, k, v) == [x \in DOMAIN m \cup {k} |-> IF x = k THEN v ELSE m[x]]

\* one pass of the loop over genome.states (origin_i counts from 0)
MutateState ==
    /\ mut.pc = "states"
    /\ mut.origin_i < Len(genome.states)
    /\ \E u \in UnifSamples :
          IF u < mr["delete_state"]
          THEN mut' = [mut EXCEPT !.removed_states = Append(@, mut.origin_i),
                                  !.origin_i = @ + 1]
          ELSE \E f1 \in toggled_flag(genome.states[mut.origin_i + 1].flag,
                                      mr["modify_state_start"], "IS_START") :
               \E f2 \in toggled_flag(f1, mr["modify_state_accepting"], "IS_FINAL") :
                  mut' = [mut EXCEPT
                     !.states = Append(@, state_gene(Len(mut.states), f2)),
                     !.start_ids = IF "IS_START" \in f2
                                   THEN Append(@, mut.state_counter) ELSE @,
                     !.n_accepting_states = IF "IS_FINAL" \in f2 THEN @ + 1 ELSE @,
                     !.state_id_map = map_put(@, mut.origin_i, Len(mut.states)),
                     !.state_counter = @ + 1,
                     !.origin_i = @ + 1]
    /\ UNCHANGED <<alphabet, allowEmptyFinal, genome, val, mr, max_nstates, fsmVars, minVars, strVars,
                   wordVars>>

\* the loop over genome.transitions that drops the transitions of removed or
\* unmapped states and rewrites the state ids of the others
RECURSIVE remap_transitions(_, _, _)
remap_transitions(ts, removed, idmap) ==
    IF ts = <<>> THEN <<>>
    ELSE LET t == Head(ts)
             rest == remap_transitions(Tail(ts), removed, idmap)
         IN  IF contains(removed, t.state_from) \/ contains(removed, t.state_to)
             THEN rest
             ELSE IF t.state_from \notin DOMAIN idmap THEN rest
             ELSE IF t.state_to \notin DOMAIN idmap THEN rest
             ELSE <<transition_gene(idmap[t.state_from], t.symbol_read,
                                    idmap[t.state_to], t.symbol_write)>> \o rest

creates_state_mut(size, max, u, rate) == size = 0 \/ u < rate

\* a state is created below max_nstates states only: when there is none, or
\* when the draw falls below mr.create_state
creates_state(size, max, u, rate) == size < max /\ (size = 0 \/ u < rate)

\* after the loop over the states: maybe append a new state, then rewrite
\* the transitions into target_transitions
CreateStateAndRemap ==
    /\ mut.pc = "states"
    /\ mut.origin_i = Len(genome.states)
    /\ LET tmp == remap_transitions(genome.transitions, mut.removed_states,
                                    mut.state_id_map)
       IN
       \E u \in UnifSamples :
          IF creates_state(Len(mut.states), max_nstates, u, mr["create_state"])
          THEN \E f1 \in toggled_flag({}, mr["modify_state_start"], "IS_START") :
               \E f2 \in toggled_flag(f1, mr["modify_state_accepting"], "IS_FINAL") :
                  mut' = [mut EXCEPT
                     !.states = Append(@, state_gene(Len(mut.states), f2)),
                     !.start_ids = IF "IS_START" \in f2
                                   THEN Append(@, mut.state_counter) ELSE @,
                     !.n_accepting_states = IF "IS_FINAL" \in f2 THEN @ + 1 ELSE @,
                     !.tmp_transitions = tmp,
                     !.pc = "start"]
          ELSE mut' = [mut EXCEPT !.tmp_transitions = tmp, !.pc = "start"]
    /\ UNCHANGED <<alphabet, allowEmptyFinal, genome, val, mr, max_nstates, fsmVars, minVars, strVars,
                   wordVars>>

clear_losers_mut(states, start_ids, id) ==
    [i \in DOMAIN states |->
        IF contains(start_ids, i - 1) /\ i - 1 > id
        THEN [states[i] EXCEPT !.flag = @ \ {"IS_START"}]
        ELSE states[i]]

\* clear IS_START on every state of start_ids but id
clear_losers(states, start_ids, id) ==
    [i \in DOMAIN states |->
        IF contains(start_ids, i - 1) /\ i - 1 # id
        THEN [states[i] EXCEPT !.flag = @ \ {"IS_START"}]
        ELSE states[i]]

\* toggle a flag of target.states[id]
toggle_state(states, id, bit) ==
    [states EXCEPT ![id + 1].flag = (@ \ {bit}) \cup ({bit} \ @)]

\* no start state: pick any state; several: keep one of start_ids
NormalizeStart ==
    /\ mut.pc = "start"
    /\ IF Len(mut.start_ids) = 0
       THEN \E id \in choice(0, Len(mut.states) - 1) :
               mut' = [mut EXCEPT !.states = toggle_state(@, id, "IS_START"),
                                  !.pc = "final"]
       ELSE IF Len(mut.start_ids) > 1
       THEN \E k \in choice(0, Len(mut.start_ids) - 1) :
               mut' = [mut EXCEPT
                  !.states = clear_losers(@, mut.start_ids, mut.start_ids[k + 1]),
                  !.pc = "final"]
       ELSE mut' = [mut EXCEPT !.pc = "final"]
    /\ UNCHANGED <<alphabet, allowEmptyFinal, genome, val, mr, max_nstates, fsmVars, minVars, strVars,
                   wordVars>>

\* mutate_states returns: its locals are gone, target.states and
\* target_transitions (tmp_transitions of mutate_genome) stay
states_return(m) ==
    [NoMutation EXCEPT !.pc = "transitions", !.states = m.states,
                       !.tmp_transitions = m.tmp_transitions]

final_missing_mut(allow, n_accepting_states) ==
    ~allow /\ n_accepting_states < 0

\* the test that guards the final-state normalization
final_missing(allow, n_accepting_states) ==
    ~allow /\ n_accepting_states < 1

\* no accepting state, and the build disallows that: pick any state.
\* mutate_states returns; mutate_transitions starts on an empty target.
NormalizeFinal ==
    /\ mut.pc = "final"
    /\ IF final_missing(allowEmptyFinal, mut.n_accepting_states)
       THEN \E id \in choice(0, Len(mut.states) - 1) :
               mut' = states_return(
                         [mut EXCEPT !.states = toggle_state(@, id, "IS_FINAL")])
       ELSE mut' = states_return(mut)
    /\ UNCHANGED <<alphabet, allowEmptyFinal, genome, val, mr, max_nstates, fsmVars, minVars, strVars,
                   wordVars>>

mutated_transitions_mut(t, nstates, a) ==
    {transition_gene(sf, sr, st, sw) :
        sf \in mutated_member(t.state_from, mr["modify_transition_source"],
                              0, nstates - 1),
        sr \in mutated_member(t.symbol_read, mr["modify_transition_symbol"],
                              0, a.n_symbols - 1),
        st \in mutated_member(t.state_to, mr["modify_transition_target"],
                              0, nstates - 1),
        sw \in mutated_member(t.symbol_write, mr["modify_transition_emission"],
                              0, a.n_symbols - 1)}

\* TRANSITION_MUTATION_LIST applied to a copy of t
mutated_transitions(t, nstates, a) ==
    {transition_gene(sf, sr, st, sw) :
        sf \in mutated_member(t.state_from, mr["modify_transition_source"],
                              0, nstates - 1),
        sr \in mutated_member(t.symbol_read, mr["modify_transition_symbol"],
                              0, a.n_input_symbols - 1),
        st \in mutated_member(t.state_to, mr["modify_transition_target"],
                              0, nstates - 1),
        sw \in mutated_member(t.symbol_write, mr["modify_transition_emission"],
                              0, a.n_input_symbols - 1)}

spawned_transitions_mut(nstates, a) ==
    {transition_gene(sf, sr, st, sw) :
        sf \in choice(0, nstates - 1), sr \in choice(0, a.n_input_symbols - 1),
        st \in choice(0, nstates), sw \in choice(0, a.n_input_symbols - 1)}

\* TRANSITION_MUTATION_LIST drawn for a new transition
spawned_transitions(nstates, a) ==
    {transition_gene(sf, sr, st, sw) :
        sf \in choice(0, nstates - 1), sr \in choice(0, a.n_input_symbols - 1),
        st \in choice(0, nstates - 1), sw \in choice(0, a.n_input_symbols - 1)}

\* one pass of the loop of mutate_transitions over tmp_transitions
MutateTransition ==
    /\ mut.pc = "transitions"
    /\ mut.j < Len(mut.tmp_transitions)
    /\ \E u \in UnifSamples :
          IF u < mr["drop_transition"]
          THEN mut' = [mut EXCEPT !.j = @ + 1]
          ELSE \E t \in mutated_transitions(mut.tmp_transitions[mut.j + 1],
                                            Len(mut.states), alphabet) :
                  mut' = [mut EXCEPT !.transitions = Append(@, t), !.j = @ + 1]
    /\ UNCHANGED <<alphabet, allowEmptyFinal, genome, val, mr, max_nstates, fsmVars, minVars, strVars,
                   wordVars>>

\* after the loop: maybe append a new transition; then mutate_genome rewrites
\* the labels (every label of target follows its id already), sorts the
\* transitions and returns
SpawnAndSort ==
    /\ mut.pc = "transitions"
    /\ mut.j = Len(mut.tmp_transitions)
    /\ \E u \in UnifSamples :
          IF u < mr["spawn_transition"]
          THEN \E t \in spawned_transitions(Len(mut.states), alphabet) :
              mut' = [mut EXCEPT
                 !.transitions = sort_transitions(
                     IF contains(mut.transitions, t) THEN @ ELSE Append(@, t)),
                 !.pc = "done"]
          ELSE mut' = [mut EXCEPT !.transitions = sort_transitions(@), !.pc = "done"]
    /\ UNCHANGED <<alphabet, allowEmptyFinal, genome, val, mr, max_nstates, fsmVars, minVars, strVars,
                   wordVars>>

\* the genome mutate_genome returns
mutate_result == [states |-> mut.states, transitions |-> mut.transitions]

MutInit ==
    \* mutate_genome reads n_input_symbols only, 2 in both alphabets
    /\ alphabet = binary_alphabet_incl_blank
    /\ allowEmptyFinal \in BOOLEAN
    /\ genome \in SimpleGenomes(MaxStates, MaxMutTrans)
    /\ mr \in {Rates(v) : v \in RateValues}
    /\ max_nstates \in 1..MaxNStates
    /\ mut = MutationStart
    /\ val = [pc |-> "none", result |-> {}, overrun |-> FALSE]
    /\ NoFsm

\* mutate_genome with every rate 0, on larger genomes
MutZeroInit ==
    /\ alphabet = binary_alphabet_incl_blank
    /\ allowEmptyFinal \in BOOLEAN
    /\ genome \in SimpleGenomes(MaxStates, MaxTrans)
    /\ mr = Rates(0)
    /\ max_nstates \in 1..MaxNStates
    /\ mut = MutationStart
    /\ val = [pc |-> "none", result |-> {}, overrun |-> FALSE]
    /\ NoFsm

MutNext ==
    \/ MutateState
    \/ CreateStateAndRemap
    \/ NormalizeStart
    \/ NormalizeFinal
    \/ MutateTransition
    \/ SpawnAndSort

SpecMut == MutInit /\ [][MutNext]_vars

SpecMutZero == MutZeroInit /\ [][MutNext]_vars

-----------------------------------------------------------------------------
(* fsm_translate, init_transition_table, fsm_init, fsm_free, fsm_reset,    *)
(* fsm_run                                                                 *)

\* get_state_by_gene_id on the states fsm_translate has made in arena a
get_state_by_gene_id(g, a, gene_id) ==
    IF \E i \in DOMAIN g.states : g.states[i].id = gene_id
    THEN state_ptr(a, CHOOSE i \in DOMAIN g.states :
                        /\ g.states[i].id = gene_id
                        /\ \A k \in DOMAIN g.states :
                              g.states[k].id = gene_id => i <= k)
    ELSE NULL

\* the objects fsm_translate allocates for a genome, as arena number a
translate_transitions(g, a) ==
    [i \in DOMAIN g.transitions |->
        [id |-> i - 1,
         from |-> get_state_by_gene_id(g, a, g.transitions[i].state_from),
         to |-> get_state_by_gene_id(g, a, g.transitions[i].state_to),
         read |-> g.transitions[i].symbol_read,
         write |-> g.transitions[i].symbol_write]]

\* a set of positions in the order a loop over the vector meets them
RECURSIVE ascending(_)
ascending(S) ==
    IF S = {} THEN <<>>
    ELSE LET m == CHOOSE x \in S : \A y \in S : x <= y
         IN  <<m>> \o ascending(S \ {m})

translate_states(g, a) ==
    LET ts == translate_transitions(g, a)
    IN  [i \in DOMAIN g.states |->
            LET outs == ascending({k \in DOMAIN ts : ts[k].from = state_ptr(a, i)})
                incs == ascending({k \in DOMAIN ts : ts[k].to = state_ptr(a, i)})
            IN  [id |-> i - 1,
                 gene_id |-> g.states[i].id,
                 label |-> g.states[i].label,
                 flag |-> g.states[i].flag,
                 transitions_outgoing |->
                    [k \in DOMAIN outs |-> transition_ptr(a, outs[k])],
                 transitions_incoming |->
                    [k \in DOMAIN incs |-> transition_ptr(a, incs[k])]]]

\* fsm_translate: the arena, and the vectors of pointers it returns
fsm_translate(g, a) ==
    LET starts == ascending({i \in DOMAIN g.states : is_start(g.states[i])})
        accepting == ascending({i \in DOMAIN g.states : is_final(g.states[i])})
    IN  [arena |-> [states |-> translate_states(g, a),
                    transitions |-> translate_transitions(g, a)],
         states |-> [i \in DOMAIN g.states |-> state_ptr(a, i)],
         starts |-> [k \in DOMAIN starts |-> state_ptr(a, starts[k])],
         accepting |-> [k \in DOMAIN accepting |-> state_ptr(a, accepting[k])],
         transitions |-> [i \in DOMAIN g.transitions |-> transition_ptr(a, i)]]

\* std::vector::resize(n, fill): the first n elements, new ones are fill
resize(v, n, fill) == [i \in 1..n |-> IF i <= Len(v) THEN v[i] ELSE fill]

\* the table after the two resizes
resized_table(table, n_states, n_symbols) ==
    [i \in 1..n_states |->
        resize(IF i <= Len(table) THEN table[i] ELSE <<>>, n_symbols, NULL)]

\* the loop of init_transition_table: every transition is stored at
\* [from->id][read], a later one replaces an earlier one
RECURSIVE store_transitions(_, _, _, _)
store_transitions(table, arena, ptrs, i) ==
    IF i > Len(ptrs) THEN table
    ELSE LET t == arena.transitions[ptrs[i].pos]
             row == arena.states[t.from.pos].id + 1
         IN  store_transitions(
                 [table EXCEPT ![row][t.read + 1] = ptrs[i]], arena, ptrs, i + 1)

init_transition_table(table, tr, n_symbols) ==
    store_transitions(resized_table(table, Len(tr.states), n_symbols),
                      tr.arena, tr.transitions, 1)

\* init_transition_table follows a null `from` or writes outside of a row
init_undefined(tr, n_symbols) ==
    \E i \in DOMAIN tr.arena.transitions :
        \/ tr.arena.transitions[i].from = NULL
        \/ tr.arena.transitions[i].read >= n_symbols

\* the call ended in undefined behaviour: nothing is modelled after it
undefined_call(op, input) ==
    [op |-> op, status |-> "undefined", result |-> OK, input |-> input,
     error_logged |-> FALSE]

returned_call(op, result, input) ==
    [op |-> op, status |-> "returned", result |-> result, input |-> input,
     error_logged |-> FALSE]

fsm_init ==
    /\ call.status = "returned"
    /\ Len(heap) < MaxInits
    /\ LET tr == fsm_translate(genome, Len(heap) + 1)
       IN  /\ heap' = Append(heap, tr.arena)
           /\ IF init_undefined(tr, alphabet.n_symbols)
              THEN /\ call' = undefined_call("init", <<>>)
                   /\ fsm' = [fsm EXCEPT !.states = tr.states,
                                         !.transitions = tr.transitions,
                                         !.starting_states = tr.starts,
                                         !.accepting_states = tr.accepting]
              ELSE /\ call' = returned_call("init", OK, <<>>)
                   /\ fsm' = [fsm EXCEPT
                         !.states = tr.states,
                         !.transitions = tr.transitions,
                         !.starting_states = tr.starts,
                         !.accepting_states = tr.accepting,
                         !.transition_table =
                             init_transition_table(@, tr, alphabet.n_symbols),
                         !.initialized = TRUE]
    /\ UNCHANGED <<alphabet, allowEmptyFinal, genome, valVars, mutVars, minVars, strVars,
                   released, log,
                   wordVars>>

\* the pointers of a vector that `delete` releases: delete nullptr does nothing
deleted(v) == {v[i] : i \in DOMAIN v} \ {NULL}

release(r, ptrs) ==
    [once |-> r.once \cup ptrs, twice |-> r.twice \cup (r.once \cap ptrs)]

fsm_free_guard_mut(f) == TRUE

\* what fsm_free requires to release anything
fsm_free_guard(f) == f.initialized

fsm_free ==
    /\ call.status = "returned"
    /\ IF ~fsm_free_guard(fsm)
       THEN \* log_error, return
            /\ call' = [returned_call("free", OK, <<>>) EXCEPT !.error_logged = TRUE]
            /\ UNCHANGED <<fsm, released>>
       ELSE /\ call' = returned_call("free", OK, <<>>)
            /\ released' = release(released,
                                   deleted(fsm.states) \cup deleted(fsm.transitions))
            /\ fsm' = [fsm EXCEPT
                  !.states = [i \in DOMAIN @ |-> NULL],
                  !.transitions = [i \in DOMAIN @ |-> NULL],
                  !.transition_table = <<>>,
                  !.initialized = FALSE]
    /\ UNCHANGED <<alphabet, allowEmptyFinal, genome, valVars, mutVars, minVars, strVars,
                   heap, log,
                   wordVars>>

\* a pointer that may be followed: not null, not released
live(r, p) == p # NULL /\ p \notin r.once

\* get_initial_state(state_ptr_vector): the first START state, else nullptr
RECURSIVE get_initial_state(_, _, _)
get_initial_state(h, states, i) ==
    IF i > Len(states) THEN NULL
    ELSE IF is_start(deref(h, states[i])) THEN states[i]
    ELSE get_initial_state(h, states, i + 1)

\* get_initial_state follows a null or dangling pointer before it returns
RECURSIVE reset_undefined(_, _, _, _)
reset_undefined(h, r, states, i) ==
    IF i > Len(states) THEN FALSE
    ELSE IF ~live(r, states[i]) THEN TRUE
    ELSE IF is_start(deref(h, states[i])) THEN FALSE
    ELSE reset_undefined(h, r, states, i + 1)

reset_effect_mut(f, h) ==
    IF f.current_state = NULL
    THEN [f EXCEPT !.current_state = get_initial_state(h, f.states, 1)]
    ELSE f

\* `fsm.current_state = get_initial_state(fsm.states)`
reset_effect(f, h) ==
    [f EXCEPT !.current_state = get_initial_state(h, f.states, 1)]

fsm_reset ==
    /\ call.status = "returned"
    /\ IF reset_undefined(heap, released, fsm.states, 1)
       THEN /\ call' = undefined_call("reset", <<>>)
            /\ UNCHANGED fsm
       ELSE /\ call' = returned_call("reset", OK, <<>>)
            /\ fsm' = reset_effect(fsm, heap)
    /\ UNCHANGED <<alphabet, allowEmptyFinal, genome, valVars, mutVars, minVars, strVars,
                   heap,
                   released, log,
                   wordVars>>

\* an absent symbol (a null pointer) in an input word
NoSymbol == -1

\* the input words: symbols of the alphabet, by id, or absent symbols
Words(a) == SeqsUpTo((0..(a.n_symbols - 1)) \cup {NoSymbol}, MaxInput)

\* copy_str: the symbols up to the first absent one
RECURSIVE copy_str(_)
copy_str(src) ==
    IF src = <<>> \/ Head(src) = NoSymbol THEN <<>>
    ELSE <<Head(src)>> \o copy_str(Tail(src))

\* `fsm.current_state = t->to`
advance(h, t) == deref(h, t).to

\* the loop of fsm_run from its i-th pass on; st holds current_state, the
\* result and the log so far, and whether the loop has followed a pointer
\* that may not be followed or has read outside of the table
RECURSIVE run_loop(_, _, _, _, _, _)
run_loop(table, h, r, input, i, st) ==
    IF i > Len(input) THEN st
    ELSE IF input[i] = NoSymbol
    THEN [st EXCEPT !.result = @ \cup {"ERROR_INVALID_WORD"}]
    ELSE IF ~live(r, st.current_state) THEN [st EXCEPT !.undefined = TRUE]
    ELSE IF deref(h, st.current_state).id + 1 > Len(table)
    THEN [st EXCEPT !.undefined = TRUE]
    ELSE LET t == table[deref(h, st.current_state).id + 1][input[i] + 1]
         IN  IF t # NULL
             THEN IF ~live(r, t) THEN [st EXCEPT !.undefined = TRUE]
                  ELSE run_loop(table, h, r, input, i + 1,
                          [st EXCEPT !.accepted = Append(@, input[i]),
                                     !.trace = Append(@, t),
                                     !.output = Append(@, deref(h, t).write),
                                     !.current_state = advance(h, t)])
             ELSE [st EXCEPT !.result = @ \cup {"ERROR_NO_VIABLE_TRANSITION"}]

\* what fsm_run ORs into its result after the loop
not_final_flag(s) == IF is_final(s) THEN {} ELSE {"ERROR_NOT_IN_FINAL_STATE"}

\* fsm_run from `copy_str(input, log.input)` on
run_body(f, h, r, a, input) ==
    LET st == run_loop(f.transition_table, h, r, input, 1,
                       [current_state |-> f.current_state, result |-> OK,
                        accepted |-> <<>>, trace |-> <<>>, output |-> <<>>,
                        undefined |-> FALSE])
    IN  IF st.undefined \/ ~live(r, st.current_state) THEN [st EXCEPT !.undefined = TRUE]
        \* symbols_to_str follows every pointer of input and of log.output
        ELSE IF \E i \in DOMAIN input : input[i] = NoSymbol
        THEN [st EXCEPT !.undefined = TRUE]
        ELSE IF \E i \in DOMAIN st.output : st.output[i] >= a.n_symbols
        THEN [st EXCEPT !.undefined = TRUE]
        ELSE [st EXCEPT !.result = @ \cup not_final_flag(deref(h, st.current_state))]

precondition_flags_mut(f, h) ==
    IF ~f.initialized THEN {"ERROR_NOT_INITIALIZED"}
    ELSE IF f.current_state = NULL THEN {"ERROR_NOT_IN_STARTING_STATE"}
    ELSE IF ~is_start(deref(h, f.current_state)) THEN {"ERROR_NOT_IN_STARTING_STATE"}
    ELSE OK

\* the sanity checks of fsm_run, for a current_state that may be followed
precondition_flags(f, h) ==
    IF ~f.initialized THEN {"ERROR_NOT_INITIALIZED"}
    ELSE IF f.current_state = NULL THEN {"ERROR_CURRENT_STATE_NOT_SET"}
    ELSE IF ~is_start(deref(h, f.current_state)) THEN {"ERROR_NOT_IN_STARTING_STATE"}
    ELSE OK

run_effect_mut(f, st) ==
    [f EXCEPT !.current_state = st.current_state,
              !.accepting_states = IF st.trace = <<>> THEN @ ELSE <<>>]

\* what a run that passed the sanity checks has written to the machine:
\* `fsm.current_state = t->to` in each pass that took a transition
run_effect(f, st) == [f EXCEPT !.current_state = st.current_state]

fsm_run ==
    /\ call.status = "returned"
    /\ \E input \in Words(alphabet) :
          IF fsm.initialized /\ fsm.current_state # NULL
             /\ ~live(released, fsm.current_state)
          THEN \* is_start reads a released state
               /\ call' = undefined_call("run", input)
               /\ log' = empty_log
               /\ UNCHANGED fsm
          ELSE IF precondition_flags(fsm, heap) # OK
          THEN /\ call' = returned_call("run", precondition_flags(fsm, heap), input)
               /\ log' = empty_log
               /\ UNCHANGED fsm
          ELSE LET st == run_body(fsm, heap, released, alphabet, input)
               IN  /\ call' = IF st.undefined THEN undefined_call("run", input)
                              ELSE returned_call("run", st.result, input)
                   /\ log' = [trace |-> st.trace, input |-> copy_str(input),
                              accepted |-> st.accepted, output |-> st.output]
                   /\ fsm' = run_effect(fsm, st)
    /\ UNCHANGED <<alphabet, allowEmptyFinal, genome, valVars, mutVars, minVars, strVars,
                   heap, released,
                   wordVars>>

\* the transition genes of the machines that are run: they read symbol 1
\* and write symbol 0, between any two of the state ids 0..nst-1 (ids that a
\* genome of fewer states does not have)
FsmTransitionGenes(nst) ==
    {t \in TransitionGenes(nst - 1) : t.symbol_read = 1 /\ t.symbol_write = 0}

\* the genomes a finite_state_machine is built from, in canonical order
FsmGenomes ==
    {g \in [states : StateGeneSeqs(MaxStates),
            transitions : SeqsUpTo(FsmTransitionGenes(MaxStates), MaxTrans)] :
        is_sorted(g.transitions)}

FsmInit ==
    /\ alphabet = binary_alphabet
    /\ allowEmptyFinal = TRUE
    /\ genome \in FsmGenomes
    /\ fsm = new_fsm /\ heap = <<>> /\ released = no_release /\ log = empty_log
    /\ call = no_call /\ dfa = NoDfa /\ txt = NoTxt /\ word = NoWord /\ rnd = NoRnd
    /\ val = [pc |-> "none", result |-> {}, overrun |-> FALSE]
    /\ mr = NoRates /\ max_nstates = 0 /\ mut = NoMutation

FsmNext == fsm_init \/ fsm_reset \/ fsm_run \/ fsm_free

SpecFsm == FsmInit /\ [][FsmNext]_vars

-----------------------------------------------------------------------------
(* dfa_remove_unreachable, dfa_compute_equivalence_sets, dfa_minimize      *)

in_domain(h, s, t) == deref(h, t).from = s

in_image(h, s, t) == deref(h, t).to = s

\* std::vector::back and pop_back
back(v) == v[Len(v)]

pop_back(v) == SubSeq(v, 1, Len(v) - 1)

\* the loop over the transitions for one unprocessed state s, from the i-th
\* transition on; w holds the vectors reachable and unprocessed
RECURSIVE reach_scan(_, _, _, _, _)
reach_scan(h, ts, i, s, w) ==
    IF i > Len(ts) THEN w
    ELSE LET target == deref(h, ts[i]).to
         IN  IF in_domain(h, s, ts[i]) /\ ~contains(w.reachable, target)
             THEN reach_scan(h, ts, i + 1, s,
                     [reachable |-> Append(w.reachable, target),
                      unprocessed |-> IF contains(w.unprocessed, target)
                                      THEN w.unprocessed
                                      ELSE Append(w.unprocessed, target)])
             ELSE reach_scan(h, ts, i + 1, s, w)

\* the while loop of get_reachable_states
RECURSIVE reach_loop(_, _, _)
reach_loop(h, ts, w) ==
    IF w.unprocessed = <<>> THEN w.reachable
    ELSE reach_loop(h, ts,
            reach_scan(h, ts, 1, back(w.unprocessed),
                       [w EXCEPT !.unprocessed = pop_back(@)]))

get_reachable_states(h, ss, ts) ==
    LET initial_state == get_initial_state(h, ss, 1)
    IN  reach_loop(h, ts, [reachable |-> <<initial_state>>,
                           unprocessed |-> <<initial_state>>])

\* the transitions dfa_remove_unreachable collects, from the i-th reachable
\* state and the k-th transition on
RECURSIVE collect_transitions(_, _, _, _, _, _)
collect_transitions(h, reachable, ts, i, k, acc) ==
    IF i > Len(reachable) THEN acc
    ELSE IF k > Len(ts) THEN collect_transitions(h, reachable, ts, i + 1, 1, acc)
    ELSE collect_transitions(h, reachable, ts, i, k + 1,
            IF (in_domain(h, reachable[i], ts[k]) \/ in_image(h, reachable[i], ts[k]))
               /\ ~contains(acc, ts[k])
            THEN Append(acc, ts[k]) ELSE acc)

dfa_remove_unreachable(h, ss, ts) ==
    LET reachable == get_reachable_states(h, ss, ts)
    IN  [states |-> reachable,
         transitions |-> collect_transitions(h, reachable, ts, 1, 1, <<>>)]

DFA_TRANSITION_UNDEFINED == -1

DFA_STATE_NOT_PROCESSED == -1

\* get_index_of: the first position of the needle, counted from 0; -1 stands
\* for the empty optional
get_index_of(vec, needle) ==
    IF \E i \in DOMAIN vec : vec[i] = needle
    THEN (CHOOSE i \in DOMAIN vec :
             vec[i] = needle /\ \A k \in DOMAIN vec : vec[k] = needle => i <= k) - 1
    ELSE -1

\* the loop of init_successor_map from the i-th transition on
RECURSIVE fill_successor_map(_, _, _, _, _)
fill_successor_map(h, ss, ts, i, map) ==
    IF i > Len(ts) THEN map
    ELSE LET t == deref(h, ts[i])
             index_from == get_index_of(ss, t.from)
             index_to == get_index_of(ss, t.to)
         IN  fill_successor_map(h, ss, ts, i + 1,
                IF index_from >= 0 /\ index_to >= 0
                THEN [map EXCEPT ![index_from + 1][t.read + 1] = index_to]
                ELSE map)

init_successor_map(a, h, ss, ts) ==
    fill_successor_map(h, ss, ts, 1,
        [j \in 1..Len(ss) |-> [k \in 1..a.n_symbols |-> DFA_TRANSITION_UNDEFINED]])

are_distinguishable_mut(a, successor_map, p, i, j) ==
    \E k \in 1..a.n_symbols :
        LET p_i == successor_map[i + 1][k]
            p_j == successor_map[j + 1][k]
        IN  /\ p_i # DFA_TRANSITION_UNDEFINED /\ p_j # DFA_TRANSITION_UNDEFINED
            /\ p.subset_map[p_i + 1] # p.subset_map[p_j + 1]

are_distinguishable(a, successor_map, p, i, j) ==
    \E k \in 1..a.n_symbols :
        LET p_i == successor_map[i + 1][k]
            p_j == successor_map[j + 1][k]
        IN  \/ (p_i = DFA_TRANSITION_UNDEFINED) # (p_j = DFA_TRANSITION_UNDEFINED)
            \/ /\ p_i # DFA_TRANSITION_UNDEFINED /\ p_j # DFA_TRANSITION_UNDEFINED
               /\ p.subset_map[p_i + 1] # p.subset_map[p_j + 1]

are_equal_partitions_mut(left, right) == left.subset_map # right.subset_map

are_equal_partitions(left, right) == left.subset_map = right.subset_map

\* the partition dfa_compute_equivalence_sets starts from: subset 0 holds the
\* states that are not final, subset 1 the final ones
initial_partition(h, ss) ==
    LET final(j) == is_final(deref(h, ss[j + 1]))
    IN  [subsets |-> <<ascending({j \in 0..(Len(ss) - 1) : ~final(j)}),
                       ascending({j \in 0..(Len(ss) - 1) : final(j)})>>,
         subset_map |-> [j \in 1..Len(ss) |-> IF final(j - 1) THEN 1 ELSE 0]]

new_subset_mut(next, q) ==
    [subsets |-> Append(next.subsets, <<q>>),
     subset_map |-> [next.subset_map EXCEPT ![q + 1] = 0]]

\* next after `push_back({q}); subset_map[q] = subsets.size() - 1`
new_subset(next, q) ==
    [subsets |-> Append(next.subsets, <<q>>),
     subset_map |-> [next.subset_map EXCEPT ![q + 1] = Len(next.subsets)]]

\* the inner loop over j for the i-th member of subset L
RECURSIVE pair_loop(_, _, _, _, _, _, _)
pair_loop(a, sm, current, L, i, j, next) ==
    IF j > Len(L) THEN next
    ELSE IF next.subset_map[L[j] + 1] >= 0
    THEN pair_loop(a, sm, current, L, i, j + 1, next)
    ELSE IF ~are_distinguishable(a, sm, current, L[i], L[j])
    THEN LET subs == next.subset_map[L[i] + 1]
         IN  pair_loop(a, sm, current, L, i, j + 1,
                [subsets |-> [next.subsets EXCEPT ![subs + 1] = Append(@, L[j])],
                 subset_map |-> [next.subset_map EXCEPT ![L[j] + 1] = subs]])
    ELSE pair_loop(a, sm, current, L, i, j + 1, next)

\* the loop over the members i of subset L
RECURSIVE member_loop(_, _, _, _, _, _)
member_loop(a, sm, current, L, i, next) ==
    IF i > Len(L) THEN next
    ELSE LET opened == IF next.subset_map[L[i] + 1] < 0
                       THEN new_subset(next, L[i]) ELSE next
         IN  member_loop(a, sm, current, L, i + 1,
                pair_loop(a, sm, current, L, i, i + 1, opened))

\* the loop over the subsets of the current partition
RECURSIVE subset_loop(_, _, _, _, _)
subset_loop(a, sm, current, s, next) ==
    IF s > Len(current.subsets) THEN next
    ELSE LET L == current.subsets[s]
         IN  subset_loop(a, sm, current, s + 1,
                IF Len(L) = 0 THEN next
                ELSE IF Len(L) = 1 THEN new_subset(next, L[1])
                ELSE member_loop(a, sm, current, L, 1, next))

\* one pass of the do-while body: the partition `next` it builds
refine(a, sm, current) ==
    subset_loop(a, sm, current, 1,
        [subsets |-> <<>>,
         subset_map |-> [i \in DOMAIN current.subset_map |-> DFA_STATE_NOT_PROCESSED]])

dfa_merge_equivalent_sets_mut(ss, partition) == ss

dfa_merge_equivalent_sets(ss, partition) ==
    LET kept == {i \in DOMAIN partition.subsets : Len(partition.subsets[i]) > 0}
        order == ascending(kept)
    IN  [k \in DOMAIN order |-> ss[partition.subsets[order[k]][1] + 1]]

dfa_get_merged_transitions_mut(h, ss, ts) ==
    LET kept == {i \in DOMAIN ts : contains(ss, deref(h, ts[i]).from)}
        order == ascending(kept)
    IN  [k \in DOMAIN order |-> ts[order[k]]]

\* the transitions whose two endpoints are states of ss, in their order
dfa_get_merged_transitions(h, ss, ts) ==
    LET kept == {i \in DOMAIN ts : /\ contains(ss, deref(h, ts[i]).from)
                                   /\ contains(ss, deref(h, ts[i]).to)}
        order == ascending(kept)
    IN  [k \in DOMAIN order |-> ts[order[k]]]

\* the do-while loop of dfa_compute_equivalence_sets run to its end: the
\* partition it returns and the number of passes it took
RECURSIVE fixed_point(_, _, _, _)
fixed_point(a, sm, current, passes) ==
    LET next == refine(a, sm, current)
    IN  IF are_equal_partitions(current, next) \/ passes >= MaxPasses
        THEN [partition |-> next, passes |-> passes + 1]
        ELSE fixed_point(a, sm, next, passes + 1)

dfa_compute_equivalence_sets(a, h, ss, ts) ==
    fixed_point(a, init_successor_map(a, h, ss, ts), initial_partition(h, ss), 0).partition

\* dfa_minimize, for states that can all be followed
dfa_minimize(a, h, ss, ts) ==
    LET r == dfa_remove_unreachable(h, ss, ts)
        equiv_sets == dfa_compute_equivalence_sets(a, h, r.states, r.transitions)
        ss_merged == dfa_merge_equivalent_sets(r.states, equiv_sets)
    IN  [states |-> ss_merged,
         transitions |-> dfa_get_merged_transitions(h, ss_merged, r.transitions)]

\* the values an uninitialized or out-of-bounds size_t read is followed with
Garbage == 0..MaxDfaStates

\* max_id of fsm_encode_genome
RECURSIVE max_id(_, _, _)
max_id(h, ss, i) ==
    IF i > Len(ss) THEN 0
    ELSE LET rest == max_id(h, ss, i + 1)
         IN  IF deref(h, ss[i]).id > rest THEN deref(h, ss[i]).id ELSE rest

id_lookup_table_mut(h, ss, valid_state_ids) ==
    [k \in {deref(h, ss[i]).id : i \in DOMAIN ss} |->
        IF valid_state_ids THEN k ELSE k + 1]

\* id_lookup_table after the loop over the states: the elements the loop has
\* written; the others are uninitialized
id_lookup_table(h, ss, valid_state_ids) ==
    LET written == {deref(h, ss[i]).id : i \in DOMAIN ss}
        last(k) == CHOOSE i \in DOMAIN ss :
                      /\ deref(h, ss[i]).id = k
                      /\ \A j \in DOMAIN ss : deref(h, ss[j]).id = k => j <= i
    IN  [k \in written |-> IF valid_state_ids THEN k ELSE last(k) - 1]

\* the ids of the states whose element of id_lookup_table is read although
\* it was never written, or lies past the end of the table
unwritten_reads(h, ss, ts) ==
    {deref(h, p).id :
        p \in {p \in UNION {{deref(h, ts[i]).from, deref(h, ts[i]).to} :
                               i \in DOMAIN ts} :
                  p # NULL /\ ~contains(ss, p)}}

\* `id_lookup_table[id]`, with junk for the reads of unwritten elements
read_table(table, junk, id) == IF id \in DOMAIN table THEN table[id] ELSE junk[id]

encoded_label_mut(h, s, id) == to_string(id)[1]

\* the label of the encoded state gene, `states[i]->label`
encoded_label(h, s, id) == deref(h, s).label

\* the genome fsm_encode_genome returns when no null pointer is followed
fsm_encode_genome(h, ss, ts, valid_state_ids, junk) ==
    LET table == id_lookup_table(h, ss, valid_state_ids)
    IN  [states |->
            [i \in DOMAIN ss |->
                LET id == IF valid_state_ids THEN deref(h, ss[i]).id ELSE i - 1
                IN  [id |-> id,
                     label |-> encoded_label(h, ss[i], id),
                     flag |-> deref(h, ss[i]).flag]],
         transitions |->
            sort_transitions(
                [i \in DOMAIN ts |->
                    transition_gene(
                        read_table(table, junk, deref(h, deref(h, ts[i]).from).id),
                        deref(h, ts[i]).read,
                        read_table(table, junk, deref(h, deref(h, ts[i]).to).id),
                        deref(h, ts[i]).write)])]

\* fsm_minimize forwards the machine's alphabet, states and transitions
fsm_minimize(h, machine) ==
    dfa_minimize(machine.alphabet, h, machine.states, machine.transitions)

\* the transition genes of the automata that are minimized: between any two
\* of the state ids 0..nst-1 (ids that a genome of fewer states does not
\* have), reading an input symbol, writing symbol 0
DfaTransitionGenes(nst) ==
    {t \in TransitionGenes(nst - 1) : t.symbol_read < 2 /\ t.symbol_write = 0}

\* no two transitions leave the same state on the same symbol
deterministic(ts) ==
    \A i \in DOMAIN ts : \A j \in DOMAIN ts :
        (i # j) => <<ts[i].state_from, ts[i].symbol_read>>
                   # <<ts[j].state_from, ts[j].symbol_read>>

\* the genomes that are minimized: deterministic, in canonical order
DfaGenomes ==
    {g \in [states : StateGeneSeqs(MaxDfaStates),
            transitions : SeqsUpTo(DfaTransitionGenes(MaxDfaStates), MaxDfaTrans)] :
        is_sorted(g.transitions) /\ deterministic(g.transitions)}

\* the machine is translated; dfa_minimize, or dfa_compute_equivalence_sets
\* alone, is about to be called on its states and transitions
MinInit ==
    /\ alphabet = binary_alphabet_incl_blank
    /\ allowEmptyFinal = TRUE
    /\ genome \in DfaGenomes
    /\ LET tr == fsm_translate(genome, 1)
       IN  /\ heap = <<tr.arena>>
           /\ dfa = [NoDfa EXCEPT !.pc = "start", !.states = tr.states,
                                  !.transitions = tr.transitions]
    /\ fsm = new_fsm /\ released = no_release /\ log = empty_log /\ call = no_call
    /\ txt = NoTxt /\ word = NoWord /\ rnd = NoRnd
    /\ val = [pc |-> "none", result |-> {}, overrun |-> FALSE]
    /\ mr = NoRates /\ max_nstates = 0 /\ mut = NoMutation

\* dfa_minimize: `dfa_remove_unreachable(states, transitions)`
RemoveUnreachable ==
    /\ dfa.pc = "start"
    /\ LET r == dfa_remove_unreachable(heap, dfa.states, dfa.transitions)
       IN  dfa' = [dfa EXCEPT !.pc = "reachable", !.states = r.states,
                              !.transitions = r.transitions]
    /\ UNCHANGED <<alphabet, allowEmptyFinal, genome, valVars, mutVars, fsmVars,
                   strVars,
                   wordVars>>

\* dfa_compute_equivalence_sets up to its loop, called by dfa_minimize
\* (pc = "reachable") or directly on the translated machine (pc = "start");
\* is_final follows every state pointer
InitPartition ==
    /\ dfa.pc \in {"start", "reachable"}
    /\ IF \E i \in DOMAIN dfa.states : dfa.states[i] = NULL
       THEN dfa' = [dfa EXCEPT !.pc = "undefined"]
       ELSE dfa' = [dfa EXCEPT
               !.pc = "loop",
               !.direct = (dfa.pc = "start"),
               !.successor_map =
                   init_successor_map(alphabet, heap, dfa.states, dfa.transitions),
               !.current = initial_partition(heap, dfa.states),
               !.next = [subsets |-> <<>>,
                         subset_map |-> [i \in DOMAIN dfa.states |-> 0]]]
    /\ UNCHANGED <<alphabet, allowEmptyFinal, genome, valVars, mutVars, fsmVars,
                   strVars,
                   wordVars>>

current_after_mut(converged, current, next) == current

\* current after `if (!converged) { swap current and next }`
current_after(converged, current, next) == IF converged THEN current ELSE next

\* one pass of the do-while body
RefinePass ==
    /\ dfa.pc = "loop"
    /\ dfa.passes < MaxPasses
    /\ LET next == refine(alphabet, dfa.successor_map, dfa.current)
           converged == are_equal_partitions(dfa.current, next)
       IN  dfa' = [dfa EXCEPT
               !.passes = @ + 1,
               !.pc = IF converged THEN "converged" ELSE "loop",
               !.current = current_after(converged, dfa.current, next),
               !.next = IF converged THEN next ELSE dfa.current]
    /\ UNCHANGED <<alphabet, allowEmptyFinal, genome, valVars, mutVars, fsmVars,
                   strVars,
                   wordVars>>

\* dfa_minimize: dfa_merge_equivalent_sets and dfa_get_merged_transitions
MergeStates ==
    /\ dfa.pc = "converged" /\ ~dfa.direct
    /\ LET ss_merged == dfa_merge_equivalent_sets(dfa.states, dfa.next)
       IN  dfa' = [dfa EXCEPT
               !.pc = "done",
               !.merged_states = ss_merged,
               !.merged_transitions =
                   dfa_get_merged_transitions(heap, ss_merged, dfa.transitions)]
    /\ UNCHANGED <<alphabet, allowEmptyFinal, genome, valVars, mutVars, fsmVars,
                   strVars,
                   wordVars>>

\* the states and transitions fsm_encode_genome is called on: the
\* translated machine, what dfa_remove_unreachable returned, or what
\* dfa_minimize returned
encode_input ==
    IF dfa.pc = "done"
    THEN [from |-> "minimized", states |-> dfa.merged_states,
          transitions |-> dfa.merged_transitions]
    ELSE [from |-> IF dfa.pc = "start" THEN "translated" ELSE "reachable",
          states |-> dfa.states, transitions |-> dfa.transitions]

\* fsm_encode_genome(states, transitions, valid_state_ids). `s->id` of a null
\* state and `->from->id`, `->to->id` of a null endpoint are undefined; the
\* read of an element of id_lookup_table that was not written yields junk
EncodeGenome ==
    /\ dfa.pc \in {"start", "reachable", "done"}
    /\ LET in == encode_input
       IN  IF \/ contains(in.states, NULL)
              \/ \E i \in DOMAIN in.transitions :
                    \/ deref(heap, in.transitions[i]).from = NULL
                    \/ deref(heap, in.transitions[i]).to = NULL
           THEN dfa' = [dfa EXCEPT !.pc = "undefined", !.input = in.from]
           ELSE \E valid_state_ids \in BOOLEAN :
                \E junk \in [unwritten_reads(heap, in.states, in.transitions)
                                -> Garbage] :
                   dfa' = [dfa EXCEPT
                      !.pc = "encoded",
                      !.input = in.from,
                      !.valid_state_ids = valid_state_ids,
                      !.encoded = fsm_encode_genome(heap, in.states, in.transitions,
                                                    valid_state_ids, junk)]
    /\ UNCHANGED <<alphabet, allowEmptyFinal, genome, valVars, mutVars, fsmVars,
                   strVars,
                   wordVars>>

MinNext == RemoveUnreachable \/ InitPartition \/ RefinePass \/ MergeStates
           \/ EncodeGenome

SpecMin == MinInit /\ [][MinNext]_vars

\* fsm_encode_genome is about to be called on the machine translated from a
\* genome whose transitions are in any order
EncInit ==
    /\ alphabet = binary_alphabet_incl_blank
    /\ allowEmptyFinal = TRUE
    /\ genome \in [states : StateGeneSeqs(MaxStates),
                   transitions : SeqsUpTo(DfaTransitionGenes(MaxStates), MaxDfaTrans)]
    /\ LET tr == fsm_translate(genome, 1)
       IN  /\ heap = <<tr.arena>>
           /\ dfa = [NoDfa EXCEPT !.pc = "start", !.states = tr.states,
                                  !.transitions = tr.transitions]
    /\ fsm = new_fsm /\ released = no_release /\ log = empty_log /\ call = no_call
    /\ txt = NoTxt /\ word = NoWord /\ rnd = NoRnd
    /\ val = [pc |-> "none", result |-> {}, overrun |-> FALSE]
    /\ mr = NoRates /\ max_nstates = 0 /\ mut = NoMutation

SpecEnc == EncInit /\ [][EncodeGenome]_vars

\* the same calls, on the automata of at most MaxFairTrans transitions whose
\* only START state is state 0
MinFairInit ==
    /\ MinInit
    /\ Len(genome.transitions) <= MaxFairTrans
    /\ \A i \in DOMAIN genome.states : is_start(genome.states[i]) <=> i = 1

\* a call that is in the loop keeps running: the next pass of the do-while
\* body is eventually taken
SpecMinFair == MinFairInit /\ [][MinNext]_vars /\ WF_vars(RefinePass)

-----------------------------------------------------------------------------
(* genome_to_str, genome_from_str                                          *)

\* `static_cast<unsigned>(e)` of automaton_state_flags
flag_value(f) ==
    (IF "IS_START" \in f THEN 1 ELSE 0) + (IF "IS_FINAL" \in f THEN 2 ELSE 0)

\* `static_cast<automaton_state_flags>(tmp)`, for the two flags of the model
flags_of(tmp) ==
    (IF tmp % 2 = 1 THEN {"IS_START"} ELSE {})
    \cup (IF (tmp \div 2) % 2 = 1 THEN {"IS_FINAL"} ELSE {})

\* `strs << n << " "` for every number of ns
RECURSIVE write_numbers(_)
write_numbers(ns) ==
    IF ns = <<>> THEN <<>>
    ELSE to_string(Head(ns)) \o <<" ">> \o write_numbers(Tail(ns))

Whitespace == {" ", "\n", "\t", "\r"}

RECURSIVE rtrim(_)
rtrim(s) ==
    IF s # <<>> /\ s[Len(s)] \in Whitespace
    THEN rtrim(SubSeq(s, 1, Len(s) - 1)) ELSE s

transition_fields_mut(t) ==
    <<t.state_from, t.state_to, t.symbol_read, t.symbol_write>>

\* the numbers genome_to_str writes for one transition, in their order
transition_fields(t) ==
    <<t.state_from, t.symbol_read, t.state_to, t.symbol_write>>

RECURSIVE all_transition_fields(_)
all_transition_fields(ts) ==
    IF ts = <<>> THEN <<>>
    ELSE transition_fields(Head(ts)) \o all_transition_fields(Tail(ts))

\* the string of genome_to_str, as the sequence of its characters
genome_to_str(g) ==
    rtrim(write_numbers(
        <<Len(g.states)>>
        \o [i \in DOMAIN g.states |-> flag_value(g.states[i].flag)]
        \o <<Len(g.transitions)>>
        \o all_transition_fields(g.transitions)))

DigitChars == {Digits[d] : d \in DOMAIN Digits}

digit_value(c) == (CHOOSE d \in DOMAIN Digits : Digits[d] = c) - 1

\* `iss >> n` for an unsigned n: the whitespace skipped first
RECURSIVE skip_ws(_, _)
skip_ws(s, p) ==
    IF p <= Len(s) /\ s[p] \in Whitespace THEN skip_ws(s, p + 1) ELSE p

\* the digits accumulated from position p on
RECURSIVE read_digits(_, _, _)
read_digits(s, p, acc) ==
    IF p <= Len(s) /\ s[p] \in DigitChars
    THEN read_digits(s, p + 1, acc * 10 + digit_value(s[p]))
    ELSE [ok |-> TRUE, value |-> acc, pos |-> p]

\* one extraction from position p: it fails at the end of the string and at
\* a character that is no digit
extract(s, p) ==
    LET q == skip_ws(s, p)
    IN  IF q <= Len(s) /\ s[q] \in DigitChars THEN read_digits(s, q, 0)
        ELSE [ok |-> FALSE, value |-> 0, pos |-> q]

\* k extractions in a row
RECURSIVE extract_many(_, _, _)
extract_many(s, p, k) ==
    IF k = 0 THEN [ok |-> TRUE, values |-> <<>>, pos |-> p]
    ELSE LET e == extract(s, p)
         IN  IF ~e.ok THEN [ok |-> FALSE, values |-> <<>>, pos |-> e.pos]
             ELSE LET r == extract_many(s, e.pos, k - 1)
                  IN  [ok |-> r.ok, values |-> <<e.value>> \o r.values,
                       pos |-> r.pos]

\* genome_from_str: whether every extraction succeeded, and the genome then
genome_from_str(encoded) ==
    LET n_states == extract(encoded, 1)
        flags == extract_many(encoded, n_states.pos,
                              IF n_states.ok THEN n_states.value ELSE 0)
        n_transitions == extract(encoded, flags.pos)
        fields == extract_many(encoded, n_transitions.pos,
                     IF n_transitions.ok THEN 4 * n_transitions.value ELSE 0)
        ok == n_states.ok /\ flags.ok /\ n_transitions.ok /\ fields.ok
    IN  [ok |-> ok,
         genome |->
            IF ~ok THEN [states |-> <<>>, transitions |-> <<>>]
            ELSE [states |->
                     [i \in 1..n_states.value |->
                         [id |-> i - 1, label |-> to_string(i - 1)[1],
                          flag |-> flags_of(flags.values[i])]],
                  transitions |->
                     [i \in 1..n_transitions.value |->
                         transition_gene(fields.values[4 * i - 3],
                                         fields.values[4 * i - 2],
                                         fields.values[4 * i - 1],
                                         fields.values[4 * i])]]]

\* the transition genes of the genomes that are written: state ids of one
\* and of two digits
TxtTransitionGenes ==
    {transition_gene(sf, sr, st, sw) :
        sf \in {0, MaxTxtId}, sr \in 0..1, st \in {1, MaxTxtId}, sw \in {0, 2}}

\* the string that test_genome.cpp decodes
TestGenomeStr ==
    <<"2", " ", "0", " ", "0", " ", "3", " ", "1", " ", "1", " ", "2", " ",
      "2", " ", "1", " ", "0", " ", "1", " ", "0", " ", "0", " ", "1", " ",
      "1", " ", "0">>

\* a string that ends before the transitions it announces
TruncatedStr == <<"1", " ", "2", " ", "1", " ", "0">>

\* a genome is about to be written with genome_to_str, or a given string is
\* about to be read with genome_from_str
TxtInit ==
    /\ alphabet = binary_alphabet_incl_blank
    /\ allowEmptyFinal = TRUE
    /\ \/ /\ genome \in [states : StateGeneSeqs(MaxStates),
                         transitions : SeqsUpTo(TxtTransitionGenes, MaxTrans)]
          /\ txt = [NoTxt EXCEPT !.pc = "start"]
       \/ /\ genome = [states |-> <<>>, transitions |-> <<>>]
          /\ \E str \in {TestGenomeStr, TruncatedStr} :
                txt = [NoTxt EXCEPT !.pc = "encoded", !.given = TRUE, !.str = str]
    /\ fsm = new_fsm /\ heap = <<>> /\ released = no_release /\ log = empty_log
    /\ call = no_call /\ dfa = NoDfa /\ word = NoWord /\ rnd = NoRnd
    /\ val = [pc |-> "none", result |-> {}, overrun |-> FALSE]
    /\ mr = NoRates /\ max_nstates = 0 /\ mut = NoMutation

GenomeToStr ==
    /\ txt.pc = "start"
    /\ txt' = [txt EXCEPT !.pc = "encoded", !.str = genome_to_str(genome)]
    /\ UNCHANGED <<alphabet, allowEmptyFinal, genome, valVars, mutVars, fsmVars,
                   minVars,
                   wordVars>>

\* genome_from_str; after a failed extraction the numbers that follow are
\* read uninitialized (undefined)
GenomeFromStr ==
    /\ txt.pc = "encoded"
    /\ LET r == genome_from_str(txt.str)
       IN  IF r.ok THEN txt' = [txt EXCEPT !.pc = "decoded", !.decoded = r.genome]
           ELSE txt' = [txt EXCEPT !.pc = "undefined"]
    /\ UNCHANGED <<alphabet, allowEmptyFinal, genome, valVars, mutVars, fsmVars,
                   minVars,
                   wordVars>>

TxtNext == GenomeToStr \/ GenomeFromStr

SpecTxt == TxtInit /\ [][TxtNext]_vars

-----------------------------------------------------------------------------
(* nth_string                                                              *)

\* A size_t, or a double of integral value: its binary digits, the least
\* significant first, the last one 1 (numbers here exceed the integers of
\* the checker).
RECURSIVE Bits(_)
Bits(i) == IF i = 0 THEN <<>> ELSE <<i % 2>> \o Bits(i \div 2)

\* without the leading zeros
normalized(b) ==
    LET ones == {i \in DOMAIN b : b[i] = 1}
    IN  SubSeq(b, 1, IF ones = {} THEN 0
                     ELSE CHOOSE i \in ones : \A j \in ones : j <= i)

bit(b, i) == IF i \in DOMAIN b THEN b[i] ELSE 0

\* the carry into digit i of a + b
carry(a, b, i) ==
    IF \E j \in 1..(i - 1) :
          /\ bit(a, j) + bit(b, j) = 2
          /\ \A k \in (j + 1)..(i - 1) : bit(a, k) + bit(b, k) >= 1
    THEN 1 ELSE 0

plus(a, b) ==
    LET n == (IF Len(a) > Len(b) THEN Len(a) ELSE Len(b)) + 1
    IN  normalized(SubSeq([i \in 1..n |->
                              (bit(a, i) + bit(b, i) + carry(a, b, i)) % 2], 1, n))

\* the borrow from digit i of a - b
borrow(a, b, i) ==
    IF \E j \in 1..(i - 1) :
          /\ bit(a, j) < bit(b, j)
          /\ \A k \in (j + 1)..(i - 1) : bit(a, k) <= bit(b, k)
    THEN 1 ELSE 0

\* a - b for a >= b
minus(a, b) ==
    normalized(SubSeq([i \in 1..Len(a) |->
                          (bit(a, i) - bit(b, i) - borrow(a, b, i)) % 2], 1, Len(a)))

\* a < b
less(a, b) ==
    IF Len(a) # Len(b) THEN Len(a) < Len(b)
    ELSE \E i \in DOMAIN a :
            /\ a[i] < b[i]
            /\ \A k \in (i + 1)..Len(a) : a[k] = b[k]

\* a * m for a small m
RECURSIVE times(_, _)
times(a, m) == IF m = 0 THEN <<>> ELSE plus(a, times(a, m - 1))

\* base ^ e, exactly: a power of 2 is a 1 after e zeros, and the other powers
\* of the model are small
power(base, e) ==
    IF base = 2 THEN [i \in 1..(e + 1) |-> IF i = e + 1 THEN 1 ELSE 0]
    ELSE Bits(base ^ e)

\* the binary digits a double keeps
DoubleDigits == 53

\* the conversion of an integral value to double: the value itself when it
\* has no more than DoubleDigits digits, else rounded to the nearest double,
\* to the one with an even last digit when two are equally near
to_double(b) ==
    IF Len(b) <= DoubleDigits THEN b
    ELSE LET drop == Len(b) - DoubleDigits
             kept == SubSeq(b, drop + 1, Len(b))
             up == /\ b[drop] = 1
                   /\ (kept[1] = 1 \/ \E i \in 1..(drop - 1) : b[i] = 1)
         IN  [i \in 1..drop |-> 0] \o (IF up THEN plus(kept, <<1>>) ELSE kept)

\* std::pow(alpha_len, e): the double nearest to the power
pow(alpha_len, e) == to_double(power(alpha_len, e))

\* `size_t k = n / std::pow(alpha_len, l - 1)`: the integral part of the
\* quotient of two doubles. (A power of 2 divides exactly; for the other
\* quotients of the model, of values below 2^52, rounding the quotient does
\* not reach the next integer.)
RECURSIVE quotient(_, _)
quotient(n, p) == IF less(n, p) THEN 0 ELSE 1 + quotient(minus(n, p), p)

\* `n = max(0, n - k * std::pow(alpha_len, l - 1))`, computed in double and
\* converted back to size_t
remainder(n, k, p) ==
    LET product == to_double(times(p, k))
    IN  IF less(to_double(n), product) THEN <<>>
        ELSE to_double(minus(to_double(n), product))

nth_symbol_mut(n, alpha_len, l) == quotient(to_double(n), pow(alpha_len, l))

\* the k of one pass of the loop
nth_symbol(n, alpha_len, l) == quotient(to_double(n), pow(alpha_len, l - 1))

\* one pass of the loop of nth_string, st.result being the positions k of the
\* symbols `&alphabet->symbols[k]` so far (a position outside the alphabet
\* for a k that is)
nth_pass(a, l, st) ==
    LET k == nth_symbol(st.n, a.n_symbols, l)
    IN  [n |-> remainder(st.n, k, pow(a.n_symbols, l - 1)),
         result |-> Append(st.result, k)]

\* count passes of the loop from l down
RECURSIVE nth_loop(_, _, _, _)
nth_loop(a, l, count, st) ==
    IF count = 0 THEN st
    ELSE IF count = 1 THEN nth_pass(a, l, st)
    ELSE LET half == count \div 2
             first == nth_loop(a, l, half, st)
         IN  IF first.n = first.n
             THEN nth_loop(a, l - half, count - half, first) ELSE st

\* whether the assertion of nth_string holds
nth_assertion(a, length, n) == less(to_double(n), pow(a.n_symbols, length))

\* what a call returns when it is not stopped by its assertion
nth_string(a, length, n) ==
    nth_loop(a, length, length, [n |-> n, result |-> <<>>]).result

\* the indices given to nth_string for strings of a length: every index of a
\* string and MaxBeyond more when the length is at most MaxLength; the first
\* ones, the last ones and MaxBeyond more for LongLength
NthIndices(a, length) ==
    LET count == power(a.n_symbols, length)
    IN  IF length <= MaxLength
        THEN {Bits(i) : i \in 0..(a.n_symbols ^ length + MaxBeyond - 1)}
        ELSE {Bits(i) : i \in 0..MaxBeyond}
             \cup {minus(count, Bits(i)) : i \in 1..(MaxBeyond + 2)}
             \cup {plus(count, Bits(i)) : i \in 0..(MaxBeyond - 1)}

\* the lengths given to nth_string: LongLength with the binary alphabet only
NthLengths(a) ==
    (0..MaxLength) \cup (IF a = binary_alphabet THEN {LongLength} ELSE {})

\* a call of nth_string; the build has NDEBUG defined (assert does nothing)
\* or not
NthInit ==
    /\ alphabet \in {binary_alphabet, binary_alphabet_incl_blank}
    /\ allowEmptyFinal = TRUE
    /\ genome = [states |-> <<>>, transitions |-> <<>>]
    /\ \E length \in NthLengths(alphabet) :
       \E n \in NthIndices(alphabet, length) :
       \E ndebug \in BOOLEAN :
          /\ word = [pc |-> "call", op |-> "nth_string", ndebug |-> ndebug,
                     length |-> length, n |-> n, result |-> <<>>]
    /\ rnd = NoRnd /\ txt = NoTxt
    /\ fsm = new_fsm /\ heap = <<>> /\ released = no_release /\ log = empty_log
    /\ call = no_call /\ dfa = NoDfa
    /\ val = [pc |-> "none", result |-> {}, overrun |-> FALSE]
    /\ mr = NoRates /\ max_nstates = 0 /\ mut = NoMutation

\* nth_string(&alphabet, length, n): a failed assertion aborts the process
NthString ==
    /\ word.pc = "call" /\ word.op = "nth_string"
    /\ IF ~word.ndebug /\ ~nth_assertion(alphabet, word.length, word.n)
       THEN word' = [word EXCEPT !.pc = "aborted"]
       ELSE word' = [word EXCEPT !.pc = "returned",
                        !.result = nth_string(alphabet, word.length, word.n)]
    /\ UNCHANGED <<alphabet, allowEmptyFinal, genome, valVars, mutVars, fsmVars,
                   minVars, strVars, rnd>>

SpecNth == NthInit /\ [][NthString]_vars

-----------------------------------------------------------------------------
(* fsm_init on genomes that read any symbol id                             *)

\* the transition genes of the machines that are initialized: any endpoints
\* and symbol_read among 0..MaxStates and 0..2, symbol_write 0
InitTransitionGenes ==
    {t \in TransitionGenes(MaxStates) : t.symbol_write = 0}

\* the genomes fsm_init is called on, in any order of the transitions
InitGenomes ==
    [states : StateGeneSeqs(MaxStates) \ {<<>>},
     transitions : SeqsUpTo(InitTransitionGenes, MaxTrans)]

InitInit ==
    /\ alphabet \in {binary_alphabet, binary_alphabet_incl_blank}
    /\ allowEmptyFinal = TRUE
    /\ genome \in InitGenomes
    /\ fsm = new_fsm /\ heap = <<>> /\ released = no_release /\ log = empty_log
    /\ call = no_call /\ dfa = NoDfa /\ txt = NoTxt /\ word = NoWord /\ rnd = NoRnd
    /\ val = [pc |-> "none", result |-> {}, overrun |-> FALSE]
    /\ mr = NoRates /\ max_nstates = 0 /\ mut = NoMutation

InitNext == fsm_init \/ fsm_free

SpecInit == InitInit /\ [][InitNext]_vars

-----------------------------------------------------------------------------
(* fsm_init on a machine whose genome is replaced                          *)

MaxTabTrans == 1

\* the genomes a machine is given: one or two states, transitions between
\* states the genome has that read a symbol of binary_alphabet and write 0
TabGenomes ==
    {g \in [states : {ss \in StateGeneSeqs(MaxStates) :
                         ss # <<>> /\ \A i \in DOMAIN ss : ss[i].flag = {}},
            transitions : SeqsUpTo({t \in TransitionGenes(MaxStates - 1) :
                                       t.symbol_read < 2 /\ t.symbol_write = 0},
                                   MaxTabTrans)] :
        \A i \in DOMAIN g.transitions :
            /\ g.transitions[i].state_from < Len(g.states)
            /\ g.transitions[i].state_to < Len(g.states)}

\* `fsm.genome = g`: the genome is a public member of finite_state_machine
replace_genome ==
    /\ call.status = "returned"
    /\ \E g \in TabGenomes :
          /\ g # genome
          /\ genome' = g
    /\ call' = returned_call("genome", OK, <<>>)
    /\ UNCHANGED <<alphabet, allowEmptyFinal, valVars, mutVars, minVars, strVars,
                   fsm, heap, released, log, wordVars>>

TabInit ==
    /\ alphabet = binary_alphabet
    /\ allowEmptyFinal = TRUE
    /\ genome \in TabGenomes
    /\ fsm = new_fsm /\ heap = <<>> /\ released = no_release /\ log = empty_log
    /\ call = no_call /\ dfa = NoDfa /\ txt = NoTxt /\ word = NoWord /\ rnd = NoRnd
    /\ val = [pc |-> "none", result |-> {}, overrun |-> FALSE]
    /\ mr = NoRates /\ max_nstates = 0 /\ mut = NoMutation

TabNext == fsm_init \/ fsm_free \/ replace_genome

SpecTab == TabInit /\ [][TabNext]_vars

-----------------------------------------------------------------------------
(* runs of machines with several START states                              *)

RewindStates == 3

\* the genomes of the machines that are run again: RewindStates states, the
\* first of them and any of the others START-flagged, none FINAL, and
\* deterministic transitions in canonical order between them that read
\* symbol 1 and write symbol 0
RewindGenomes ==
    {g \in [states : {ss \in StateGeneSeqs(RewindStates) :
                         /\ Len(ss) = RewindStates
                         /\ is_start(ss[1])
                         /\ \A i \in DOMAIN ss : "IS_FINAL" \notin ss[i].flag},
            transitions : SeqsUpTo(FsmTransitionGenes(RewindStates), MaxTrans)] :
        is_sorted(g.transitions) /\ deterministic(g.transitions)}

RewindInit ==
    /\ alphabet = binary_alphabet
    /\ allowEmptyFinal = TRUE
    /\ genome \in RewindGenomes
    /\ fsm = new_fsm /\ heap = <<>> /\ released = no_release /\ log = empty_log
    /\ call = no_call /\ dfa = NoDfa /\ txt = NoTxt /\ word = NoWord /\ rnd = NoRnd
    /\ val = [pc |-> "none", result |-> {}, overrun |-> FALSE]
    /\ mr = NoRates /\ max_nstates = 0 /\ mut = NoMutation

SpecRewind == RewindInit /\ [][FsmNext]_vars

-----------------------------------------------------------------------------
(* random_genome                                                           *)

random_state_flag_mut(i, u) ==
    {"IS_START"} \cup (IF u < 50 THEN {"IS_FINAL"} ELSE {})

\* the flag of the i-th state: IS_START for state 0, IS_FINAL when the draw
\* is below 0.5
random_state_flag(i, u) ==
    (IF i = 0 THEN {"IS_START"} ELSE {}) \cup (IF u < 50 THEN {"IS_FINAL"} ELSE {})

\* `while (k < n_states) { if (unif_random(rng) < prob) break; k += 1; }` with
\* prob = 1 / (double)n_states: the number of draws before the first one
\* below prob, n_states when there is none (draws in percent)
random_target(draws, n_states) ==
    LET below == {k \in 0..(n_states - 1) : draws[k + 1] * n_states < 100}
    IN  IF below = {} THEN n_states
        ELSE CHOOSE k \in below : \A m \in below : k <= m

\* the symbol written by a transition that reads the j-th input symbol
random_emissions(a, j, random_emission) ==
    IF random_emission THEN choice(0, a.n_input_symbols - 1) ELSE {j}

\* a call random_genome(&alphabet, n_states, random_emission, rng) at its
\* first state
RndInit ==
    /\ alphabet \in {binary_alphabet, binary_alphabet_incl_blank}
    /\ allowEmptyFinal \in BOOLEAN
    /\ genome = [states |-> <<>>, transitions |-> <<>>]
    /\ \E n \in 1..MaxNStates : \E e \in BOOLEAN :
          rnd = [pc |-> "states", n_states |-> n, random_emission |-> e,
                 i |-> 0, j |-> 0, states |-> <<>>, transitions |-> <<>>]
    /\ word = NoWord /\ txt = NoTxt
    /\ fsm = new_fsm /\ heap = <<>> /\ released = no_release /\ log = empty_log
    /\ call = no_call /\ dfa = NoDfa
    /\ val = [pc |-> "none", result |-> {}, overrun |-> FALSE]
    /\ mr = NoRates /\ max_nstates = 0 /\ mut = NoMutation

\* one pass of the loop over the states
RandomState ==
    /\ rnd.pc = "states"
    /\ \E u \in UnifSamples :
          rnd' = [rnd EXCEPT
                    !.states = Append(@, state_gene(rnd.i, random_state_flag(rnd.i, u))),
                    !.i = IF rnd.i + 1 < rnd.n_states THEN rnd.i + 1 ELSE 0,
                    !.pc = IF rnd.i + 1 < rnd.n_states THEN "states" ELSE "transitions"]
    /\ UNCHANGED <<alphabet, allowEmptyFinal, genome, valVars, mutVars, fsmVars,
                   minVars, strVars, word>>

\* one pass of the loop over the input symbols of state i
RandomTransition ==
    /\ rnd.pc = "transitions"
    /\ \E draws \in [1..rnd.n_states -> UnifSamples] :
       \E l \in random_emissions(alphabet, rnd.j, rnd.random_emission) :
          LET k == random_target(draws, rnd.n_states)
              last_symbol == rnd.j + 1 = alphabet.n_input_symbols
              last_state == rnd.i + 1 = rnd.n_states
          IN  rnd' = [rnd EXCEPT
                        !.transitions =
                            IF k < rnd.n_states
                            THEN Append(@, transition_gene(rnd.i, rnd.j, k, l))
                            ELSE @,
                        !.j = IF last_symbol THEN 0 ELSE rnd.j + 1,
                        !.i = IF last_symbol THEN rnd.i + 1 ELSE rnd.i,
                        !.pc = IF last_symbol /\ last_state THEN "sort"
                               ELSE "transitions"]
    /\ UNCHANGED <<alphabet, allowEmptyFinal, genome, valVars, mutVars, fsmVars,
                   minVars, strVars, word>>

\* `sort(genome); return genome;`
RandomSort ==
    /\ rnd.pc = "sort"
    /\ genome' = [states |-> rnd.states,
                  transitions |-> sort_transitions(rnd.transitions)]
    /\ rnd' = [rnd EXCEPT !.pc = "returned"]
    /\ UNCHANGED <<alphabet, allowEmptyFinal, valVars, mutVars, fsmVars,
                   minVars, strVars, word>>

RndNext == RandomState \/ RandomTransition \/ RandomSort

SpecRnd == RndInit /\ [][RndNext]_vars

-----------------------------------------------------------------------------
(* str_to_symbols and symbols_to_str                                       *)

binary_symbols ==
    <<[id |-> 0, glyph |-> "0", is_blank |-> FALSE],
      [id |-> 1, glyph |-> "1", is_blank |-> FALSE]>>

binary_symbols_incl_blank ==
    <<[id |-> 0, glyph |-> "0", is_blank |-> FALSE],
      [id |-> 1, glyph |-> "1", is_blank |-> FALSE],
      [id |-> 2, glyph |-> ".", is_blank |-> TRUE]>>

\* alphabet.symbols
symbols_of(a) ==
    IF a = binary_alphabet THEN binary_symbols ELSE binary_symbols_incl_blank

matching_symbols_mut(a, c) ==
    ascending({i \in 0..(a.n_input_symbols - 1) : symbols_of(a)[i + 1].glyph = c})

\* the inner loop of str_to_symbols: the symbols `&alphabet.symbols[i]` it
\* pushes for a character, by position i
matching_symbols(a, c) ==
    ascending({i \in 0..(a.n_symbols - 1) : symbols_of(a)[i + 1].glyph = c})

RECURSIVE str_to_symbols(_, _)
str_to_symbols(str, a) ==
    IF str = <<>> THEN <<>>
    ELSE matching_symbols(a, Head(str)) \o str_to_symbols(Tail(str), a)

\* symbols_to_str of a vector of pointers to symbols of the alphabet
symbols_to_str(w, a) == [i \in DOMAIN w |-> symbols_of(a)[w[i] + 1].glyph]

\* the characters of the strings that are converted: the glyphs and one
\* character that is no glyph of either alphabet
Characters == {"0", "1", ".", "x"}

\* a string or a symbol sequence is given, no conversion is done yet
SymInit ==
    /\ alphabet \in {binary_alphabet, binary_alphabet_incl_blank}
    /\ allowEmptyFinal = TRUE
    /\ genome = [states |-> <<>>, transitions |-> <<>>]
    /\ \/ \E s \in SeqsUpTo(Characters, MaxLength) :
             word = [pc |-> "string", op |-> "str_to_symbols", given |-> s,
                     str |-> s, symbols |-> <<>>, conversions |-> 0]
       \/ \E w \in SeqsUpTo(0..(alphabet.n_symbols - 1), MaxLength) :
             word = [pc |-> "symbols", op |-> "symbols_to_str", given |-> w,
                     str |-> <<>>, symbols |-> w, conversions |-> 0]
    /\ rnd = NoRnd /\ txt = NoTxt
    /\ fsm = new_fsm /\ heap = <<>> /\ released = no_release /\ log = empty_log
    /\ call = no_call /\ dfa = NoDfa
    /\ val = [pc |-> "none", result |-> {}, overrun |-> FALSE]
    /\ mr = NoRates /\ max_nstates = 0 /\ mut = NoMutation

\* symbols = str_to_symbols(str, alphabet)
StrToSymbols ==
    /\ word.pc = "string" /\ word.conversions < 2
    /\ word' = [word EXCEPT !.pc = "symbols",
                            !.symbols = str_to_symbols(word.str, alphabet),
                            !.conversions = @ + 1]
    /\ UNCHANGED <<alphabet, allowEmptyFinal, genome, valVars, mutVars, fsmVars,
                   minVars, strVars, rnd>>

\* str = symbols_to_str(symbols)
SymbolsToStr ==
    /\ word.pc = "symbols" /\ word.conversions < 2
    /\ word' = [word EXCEPT !.pc = "string",
                            !.str = symbols_to_str(word.symbols, alphabet),
                            !.conversions = @ + 1]
    /\ UNCHANGED <<alphabet, allowEmptyFinal, genome, valVars, mutVars, fsmVars,
                   minVars, strVars, rnd>>

SymNext == StrToSymbols \/ SymbolsToStr

SpecSym == SymInit /\ [][SymNext]_vars

-----------------------------------------------------------------------------
(* The Successive string generator                                         *)

\* the binary digits of a size_t
SizeDigits == 64

\* the largest size_t
max_size_t == [i \in 1..SizeDigits |-> 1]

\* the conversion of a double of integral value to size_t: the value when a
\* size_t holds it; undefined behaviour else, which gives 0 or the largest
\* size_t in the builds for common processors
to_size_t(d) == IF Len(d) <= SizeDigits THEN {d} ELSE {<<>>, max_size_t}

\* `(_n + 1) % _n_max` for _n < _n_max
successor(n, n_max) == IF Bits(n + 1) = n_max THEN 0 ELSE n + 1

\* the number of strings of a length, when it is small
n_strings(a, length) == a.n_symbols ^ length

\* the lengths a generator is made for: WideLength with the binary alphabet
\* only
GenLengths(a) ==
    (0..MaxLength) \cup (IF a = binary_alphabet THEN {WideLength} ELSE {})

\* no generator is constructed yet
GenInit ==
    /\ alphabet \in {binary_alphabet, binary_alphabet_incl_blank}
    /\ allowEmptyFinal = TRUE
    /\ genome = [states |-> <<>>, transitions |-> <<>>]
    /\ \E length \in GenLengths(alphabet) : \E ndebug \in BOOLEAN :
          word = [pc |-> "new", op |-> "Successive", ndebug |-> ndebug,
                  length |-> length, n |-> 0, n_max |-> <<>>,
                  calls |-> 0, total |-> 0, result |-> <<>>]
    /\ rnd = NoRnd /\ txt = NoTxt
    /\ fsm = new_fsm /\ heap = <<>> /\ released = no_release /\ log = empty_log
    /\ call = no_call /\ dfa = NoDfa
    /\ val = [pc |-> "none", result |-> {}, overrun |-> FALSE]
    /\ mr = NoRates /\ max_nstates = 0 /\ mut = NoMutation

\* Successive(alphabet, length): `_n(0), _n_max(std::pow(alph.n_symbols, length))`
GenConstruct ==
    /\ word.pc = "new" /\ word.op = "Successive"
    /\ \E n_max \in to_size_t(pow(alphabet.n_symbols, word.length)) :
          word' = [word EXCEPT !.pc = "ready", !.n = 0, !.n_max = n_max]
    /\ UNCHANGED <<alphabet, allowEmptyFinal, genome, valVars, mutVars, fsmVars,
                   minVars, strVars, rnd>>

\* operator(): a modulus of 0 is a division by zero; a failed assertion of
\* nth_string aborts the process
GenCall ==
    /\ word.pc \in {"ready", "returned"} /\ word.op = "Successive"
    /\ word.length <= MaxLength =>
          word.total < n_strings(alphabet, word.length) + MaxBeyond
    /\ word.length > MaxLength => word.total < MaxBeyond
    /\ IF word.n_max = <<>>
       THEN word' = [word EXCEPT !.pc = "undefined", !.calls = @ + 1,
                                 !.total = @ + 1]
       ELSE LET n == word.n
            IN  word' = [word EXCEPT
                    !.n = successor(n, word.n_max),
                    !.calls = @ + 1, !.total = @ + 1,
                    !.pc = IF ~word.ndebug
                              /\ ~nth_assertion(alphabet, word.length, Bits(n))
                           THEN "aborted" ELSE "returned",
                    !.result = nth_string(alphabet, word.length, Bits(n))]
    /\ UNCHANGED <<alphabet, allowEmptyFinal, genome, valVars, mutVars, fsmVars,
                   minVars, strVars, rnd>>

\* reset(): `_n = 0`
GenReset ==
    /\ word.pc \in {"ready", "returned"} /\ word.op = "Successive"
    /\ word.calls > 0
    /\ word' = [word EXCEPT !.pc = "ready", !.n = 0, !.calls = 0]
    /\ UNCHANGED <<alphabet, allowEmptyFinal, genome, valVars, mutVars, fsmVars,
                   minVars, strVars, rnd>>

GenNext == GenConstruct \/ GenCall \/ GenReset

SpecGen == GenInit /\ [][GenNext]_vars

(* Claims about fsm_run, fsm_init and fsm_free.                            *)

\* fsm_run passes its sanity checks in this state
PassesPreconditions ==
    /\ fsm.initialized
    /\ live(released, fsm.current_state)
    /\ is_start(deref(heap, fsm.current_state))

\* the entry of the transition table for a state and a symbol
lookup(state, symbol) ==
    fsm.transition_table[deref(heap, state).id + 1][symbol + 1]

\* the state the machine is in after the first k transitions of a trace
\* that started in state s
state_after(s, trace, k) == IF k = 0 THEN s ELSE deref(heap, trace[k]).to

\* C1: a call of fsm_run on an initialized machine in a START state, with an
\* input of alphabet symbols, returns after following the transition table
\* symbol by symbol: it consumes the longest prefix of the input whose
\* lookups are all present, leaves current_state at the target of the last
\* transition taken (where it was if none was taken), and sets
\* ERROR_NO_VIABLE_TRANSITION exactly when it stopped before the end of the
\* input.
C1_RunFollowsTable ==
    [][(/\ call'.op = "run" /\ PassesPreconditions
        /\ \A i \in DOMAIN call'.input : call'.input[i] # NoSymbol) =>
       LET input == call'.input
           n == Len(log'.accepted)
           from(k) == state_after(fsm.current_state, log'.trace, k)
       IN  /\ call'.status = "returned"
           /\ n <= Len(input)
           /\ log'.accepted = SubSeq(input, 1, n)
           /\ Len(log'.trace) = n
           /\ \A k \in 1..n : /\ log'.trace[k] # NULL
                              /\ log'.trace[k] = lookup(from(k - 1), input[k])
           /\ n < Len(input) => lookup(from(n), input[n + 1]) = NULL
           /\ fsm'.current_state = from(n)
           /\ "ERROR_NO_VIABLE_TRANSITION" \in call'.result <=> n < Len(input)
      ]_vars

\* C2: a call of fsm_run that is past its sanity checks returns a result
\* that has ERROR_NOT_IN_FINAL_STATE exactly when the state the run ended in
\* is not FINAL; the result is OK exactly when the whole input was consumed
\* and that state is FINAL; a missing transition from a non-final state
\* gives exactly ERROR_NO_VIABLE_TRANSITION | ERROR_NOT_IN_FINAL_STATE; the
\* empty input in a non-final state gives exactly ERROR_NOT_IN_FINAL_STATE.
C2_NotInFinalState ==
    [][(call'.op = "run" /\ PassesPreconditions) =>
       /\ call'.status = "returned"
       /\ fsm'.current_state # NULL
       /\ LET final == is_final(deref(heap, fsm'.current_state))
              whole == Len(log'.accepted) = Len(call'.input)
          IN  /\ "ERROR_NOT_IN_FINAL_STATE" \in call'.result <=> ~final
              /\ call'.result = OK <=> (whole /\ final)
              /\ ("ERROR_NO_VIABLE_TRANSITION" \in call'.result /\ ~final) =>
                    call'.result = {"ERROR_NO_VIABLE_TRANSITION",
                                    "ERROR_NOT_IN_FINAL_STATE"}
              /\ (call'.input = <<>> /\ ~final) =>
                    call'.result = {"ERROR_NOT_IN_FINAL_STATE"}
      ]_vars

\* the call returned exactly this flag, consumed nothing and left the
\* machine as it was
FailsWith(flag) ==
    /\ call'.status = "returned" /\ call'.result = {flag}
    /\ log'.accepted = <<>> /\ log'.trace = <<>>
    /\ fsm' = fsm

\* C3: fsm_run checks in this order and reports each failure alone: not
\* initialized, ERROR_NOT_INITIALIZED; else no current state,
\* ERROR_CURRENT_STATE_NOT_SET; else current state not START,
\* ERROR_NOT_IN_STARTING_STATE; no symbol is consumed and the machine,
\* current_state included, stays as it was.
C3_PreconditionsInOrder ==
    [][call'.op = "run" =>
        /\ ~fsm.initialized => FailsWith("ERROR_NOT_INITIALIZED")
        /\ (fsm.initialized /\ fsm.current_state = NULL) =>
              FailsWith("ERROR_CURRENT_STATE_NOT_SET")
        /\ (/\ fsm.initialized /\ live(released, fsm.current_state)
            /\ ~is_start(deref(heap, fsm.current_state))) =>
              FailsWith("ERROR_NOT_IN_STARTING_STATE")
      ]_vars

\* fsm_run was called in a state that is not START and returned
\* ERROR_NOT_IN_STARTING_STATE
C3_Witness ==
    /\ call.op = "run" /\ call.result = {"ERROR_NOT_IN_STARTING_STATE"}
    /\ fsm.initialized /\ ~is_start(deref(heap, fsm.current_state))

\* C4: fsm_free on a machine that is not initialized reports the misuse and
\* returns, releasing nothing and changing no field; fsm_run on such a
\* machine returns ERROR_NOT_INITIALIZED and changes no field; no state and
\* no transition is ever released twice.
C4_LifecycleMisuse ==
    /\ [][(call'.op = "free" /\ ~fsm.initialized) =>
            /\ call'.status = "returned" /\ call'.error_logged
            /\ fsm' = fsm /\ released' = released /\ heap' = heap]_vars
    /\ [][(call'.op = "run" /\ ~fsm.initialized) =>
            /\ call'.status = "returned"
            /\ call'.result = {"ERROR_NOT_INITIALIZED"}
            /\ fsm' = fsm /\ released' = released /\ heap' = heap]_vars
    /\ [](released.twice = {})

\* fsm_free was called on a machine whose states were already released
C4_Witness ==
    /\ call.op = "free" /\ call.error_logged
    /\ \E i \in DOMAIN fsm.states : fsm.states[i] = NULL
    /\ released.once # {}

-----------------------------------------------------------------------------
(* Claims about mutate_genome.                                             *)

\* the positions of the START (FINAL) genes of a vector of state genes
start_positions(states) == {i \in DOMAIN states : is_start(states[i])}

final_positions(states) == {i \in DOMAIN states : is_final(states[i])}

\* C5: the genome mutate_genome returns has exactly one IS_START state, for
\* every input genome, rates, draws and max_nstates >= 1.
C5_ExactlyOneStart ==
    mut.pc = "done" => Cardinality(start_positions(mutate_result.states)) = 1

\* mutate_genome returned for a genome of two START genes of which none was
\* deleted and none toggled (rates of 0), and for a genome with none
C5_Witness ==
    /\ mut.pc = "done"
    /\ \/ mr = Rates(0) /\ Cardinality(start_positions(genome.states)) = 2
       \/ Cardinality(start_positions(genome.states)) = 0
    /\ Cardinality(start_positions(genome.states)) # 1
    /\ Len(mutate_result.states) = 2

\* how often a gene occurs in a vector
occurrences(ts, t) == Cardinality({i \in DOMAIN ts : ts[i] = t})

same_multiset(ts, us) ==
    /\ Len(ts) = Len(us)
    /\ \A i \in DOMAIN ts : occurrences(ts, ts[i]) = occurrences(us, ts[i])

\* state id = position, exactly one START state, all endpoints in range
canonical_input(g) ==
    /\ \A i \in DOMAIN g.states : g.states[i].id = i - 1
    /\ Cardinality(start_positions(g.states)) = 1
    /\ \A i \in DOMAIN g.transitions :
          /\ g.transitions[i].state_from < Len(g.states)
          /\ g.transitions[i].state_to < Len(g.states)

\* the result has the states of the input (ids and flags, in order) and the
\* transitions of the input, sorted
identity_up_to_sort(g, r) ==
    /\ r.states = g.states
    /\ same_multiset(r.transitions, g.transitions)
    /\ is_sorted(r.transitions)

\* C6 as claimed: with all rates 0, for every genome with state id =
\* position, exactly one START state and all endpoints in range, the result
\* has the same states and flags and the same transitions, sorted.
C6_Original ==
    (mut.pc = "done" /\ mr = Rates(0) /\ canonical_input(genome)) =>
        identity_up_to_sort(genome, mutate_result)

\* C6 amended: the same, for genomes that also have a FINAL state or in a
\* build that allows empty final-state sets.
C6_ZeroRatesIdentity ==
    (/\ mut.pc = "done" /\ mr = Rates(0) /\ canonical_input(genome)
     /\ (allowEmptyFinal \/ final_positions(genome.states) # {})) =>
        identity_up_to_sort(genome, mutate_result)

\* mutate_genome with rates 0 returned for a canonical genome of two states
\* and two transitions that were not in sorted order
C6_Witness ==
    /\ mut.pc = "done" /\ mr = Rates(0) /\ canonical_input(genome)
    /\ allowEmptyFinal \/ final_positions(genome.states) # {}
    /\ Len(genome.states) = 2 /\ Len(genome.transitions) = 2
    /\ ~is_sorted(genome.transitions)

input_symbols_only(a, ts) ==
    \A i \in DOMAIN ts : /\ ts[i].symbol_read < a.n_input_symbols
                         /\ ts[i].symbol_write < a.n_input_symbols

\* C7: if every transition of the input genome reads and writes input
\* symbols, so does every transition of the genome mutate_genome returns:
\* the symbols it draws are input symbols, never a blank.
C7_DrawnSymbolsAreInputSymbols ==
    (mut.pc = "done" /\ input_symbols_only(alphabet, genome.transitions)) =>
        input_symbols_only(alphabet, mutate_result.transitions)

\* mutate_genome returned a transition whose symbols no transition of the
\* input has: they were drawn
C7_Witness ==
    /\ mut.pc = "done" /\ input_symbols_only(alphabet, genome.transitions)
    /\ \E i \in DOMAIN mutate_result.transitions :
          \A k \in DOMAIN genome.transitions :
             \/ mutate_result.transitions[i].symbol_read
                   # genome.transitions[k].symbol_read
             \/ mutate_result.transitions[i].symbol_write
                   # genome.transitions[k].symbol_write

\* C8: in a build that disallows empty final-state sets the genome
\* mutate_genome returns has a FINAL state; in a build that allows them the
\* final-state normalization changes no state.
C8_FinalStateNormalization ==
    /\ [](mut.pc = "done" =>
            (~allowEmptyFinal => final_positions(mutate_result.states) # {}))
    /\ [][(mut.pc = "final" /\ allowEmptyFinal) => mut'.states = mut.states]_vars

\* mutate_genome returned in a build that disallows empty final-state sets,
\* for a genome without FINAL state of which no state was toggled
C8_Witness ==
    /\ mut.pc = "done" /\ ~allowEmptyFinal /\ mr = Rates(0)
    /\ Len(genome.states) = 2 /\ final_positions(genome.states) = {}

-----------------------------------------------------------------------------
(* Claims about validate_genome.                                           *)

\* two transitions at different positions share (state_from, symbol_read),
\* symbol_read being an input symbol
SharesStateAndSymbol(a, g) ==
    \E i \in DOMAIN g.transitions : \E j \in DOMAIN g.transitions :
        /\ i # j
        /\ g.transitions[i].state_from = g.transitions[j].state_from
        /\ g.transitions[i].symbol_read = g.transitions[j].symbol_read
        /\ g.transitions[i].symbol_read < a.n_input_symbols

\* C9: a call of validate_genome that stays inside ts_counter returns IS_NFA
\* if and only if two transitions of the genome share the same
\* (state_from, symbol_read) pair with symbol_read an input symbol.
C9_NfaIffSharedPair ==
    (val.pc = "returned" /\ ~val.overrun) =>
        ("IS_NFA" \in val.result <=> SharesStateAndSymbol(alphabet, genome))

\* C10: validate_genome returns MISSING_STARTING_STATE exactly when no state
\* gene is IS_START, MULTIPLE_STARTING_STATES exactly when two different genes
\* are, never both; and NO_FINAL_STATES exactly when empty final-state sets
\* are disallowed and no gene is IS_FINAL (so never when they are allowed).
C10_StartAndFinalFlags ==
    val.pc = "returned" =>
        LET none == \A i \in DOMAIN genome.states : ~is_start(genome.states[i])
            many == \E i \in DOMAIN genome.states : \E j \in DOMAIN genome.states :
                       i # j /\ is_start(genome.states[i]) /\ is_start(genome.states[j])
            nofinal == \A i \in DOMAIN genome.states : ~is_final(genome.states[i])
        IN  /\ "MISSING_STARTING_STATE" \in val.result <=> none
            /\ "MULTIPLE_STARTING_STATES" \in val.result <=> many
            /\ ~({"MISSING_STARTING_STATE", "MULTIPLE_STARTING_STATES"} \subseteq val.result)
            /\ "NO_FINAL_STATES" \in val.result <=> (~allowEmptyFinal /\ nofinal)
            /\ allowEmptyFinal => "NO_FINAL_STATES" \notin val.result

\* validate_genome returned for a genome with two START genes and no FINAL
\* gene, in a build that disallows empty final-state sets
C10_Witness ==
    /\ val.pc = "returned"
    /\ ~allowEmptyFinal
    /\ {"MULTIPLE_STARTING_STATES", "NO_FINAL_STATES"} \subseteq val.result

\* two transitions at different positions that are equal on the full 4-tuple
HasDuplicate(g) ==
    \E i \in DOMAIN g.transitions : \E j \in DOMAIN g.transitions :
        i # j /\ to_tuple(g.transitions[i]) = to_tuple(g.transitions[j])

\* C11: validate_genome returns DUPLICATE_TRANSITION if and only if the
\* genome has two transitions at different positions that are equal on the
\* full 4-tuple, whatever the number of states of the genome.
C11_DuplicateIffEqualPair ==
    val.pc = "returned" =>
        ("DUPLICATE_TRANSITION" \in val.result <=> HasDuplicate(genome))

\* C12: every call of validate_genome returns, and its result reports each
\* structural defect independently: MISSING_STATES iff there is no state,
\* MISSING_TRANSITIONS iff there is no transition, TRANSITION_SOURCE_UNKNOWN
\* iff some state_from >= the number of states, TRANSITION_TARGET_UNKNOWN iff
\* some state_to >= the number of states, TRANSITION_SYMBOL_IS_UNKNOWN iff
\* some symbol_read or symbol_write >= n_input_symbols; one START+FINAL
\* state and no transition gives MISSING_TRANSITIONS without
\* MISSING_STARTING_STATE.
C12_StructuralDefects ==
    val.pc # "idle" =>
        /\ val.pc = "returned"
        /\ "MISSING_STATES" \in val.result <=> genome.states = <<>>
        /\ "MISSING_TRANSITIONS" \in val.result <=> genome.transitions = <<>>
        /\ "TRANSITION_SOURCE_UNKNOWN" \in val.result <=>
              \E i \in DOMAIN genome.transitions :
                 genome.transitions[i].state_from >= Len(genome.states)
        /\ "TRANSITION_TARGET_UNKNOWN" \in val.result <=>
              \E i \in DOMAIN genome.transitions :
                 genome.transitions[i].state_to >= Len(genome.states)
        /\ "TRANSITION_SYMBOL_IS_UNKNOWN" \in val.result <=>
              \E i \in DOMAIN genome.transitions :
                 \/ genome.transitions[i].symbol_read >= alphabet.n_input_symbols
                 \/ genome.transitions[i].symbol_write >= alphabet.n_input_symbols
        /\ (/\ genome.transitions = <<>> /\ Len(genome.states) = 1
            /\ genome.states[1].flag = {"IS_START", "IS_FINAL"}) =>
              /\ "MISSING_TRANSITIONS" \in val.result
              /\ "MISSING_STARTING_STATE" \notin val.result

-----------------------------------------------------------------------------
(* Claims about dfa_compute_equivalence_sets.                              *)

\* the positions, counted from 0, of the states the partition is computed for
Positions == 0..(Len(dfa.states) - 1)

\* the successor of the state at position i on symbol k: the position of the
\* target of its transition on k, if it has one whose target is among the
\* states; otherwise undefined
Successor(i, k) ==
    LET ts == {n \in DOMAIN dfa.transitions :
                  LET t == deref(heap, dfa.transitions[n])
                  IN  /\ t.from = dfa.states[i + 1] /\ t.read = k
                      /\ \E j \in Positions : dfa.states[j + 1] = t.to}
    IN  IF ts = {} THEN DFA_TRANSITION_UNDEFINED
        ELSE LET t == deref(heap, dfa.transitions[CHOOSE n \in ts : TRUE])
             IN  CHOOSE j \in Positions : dfa.states[j + 1] = t.to

\* the pairs of E whose successors (succ[i][k]) on every symbol of the
\* alphabet are both undefined or both defined and again a pair of E
Stable(E, succ) ==
    {p \in E : \A k \in 0..(alphabet.n_symbols - 1) :
        LET a == succ[p[1]][k]
            b == succ[p[2]][k]
        IN  \/ a = DFA_TRANSITION_UNDEFINED /\ b = DFA_TRANSITION_UNDEFINED
            \/ /\ a # DFA_TRANSITION_UNDEFINED /\ b # DFA_TRANSITION_UNDEFINED
               /\ <<a, b>> \in E}

RECURSIVE CoarsestStable(_, _)
CoarsestStable(E, succ) ==
    LET F == Stable(E, succ) IN IF F = E THEN E ELSE CoarsestStable(F, succ)

\* the Moore equivalence: the largest stable relation inside "equally final"
MooreEquivalence ==
    CoarsestStable(
        {p \in Positions \X Positions :
            is_final(deref(heap, dfa.states[p[1] + 1]))
                = is_final(deref(heap, dfa.states[p[2] + 1]))},
        [i \in Positions |-> [k \in 0..(alphabet.n_symbols - 1) |-> Successor(i, k)]])

\* C14: for a deterministic set of states and transitions, the partition
\* dfa_compute_equivalence_sets returns is the Moore partition: two states
\* are in the same subset exactly when they are equally final and, on every
\* symbol of the full alphabet and transitively, their successors are both
\* undefined or both defined and in the same subset; the subsets list
\* exactly the states the subset_map gives them.
C14_MoorePartition ==
    dfa.pc = "converged" =>
        /\ LET moore == MooreEquivalence
           IN  \A i \in Positions : \A j \in Positions :
                  (dfa.next.subset_map[i + 1] = dfa.next.subset_map[j + 1])
                     <=> <<i, j>> \in moore
        /\ \A i \in Positions :
              /\ dfa.next.subset_map[i + 1] \in 0..(Len(dfa.next.subsets) - 1)
              /\ contains(dfa.next.subsets[dfa.next.subset_map[i + 1] + 1], i)
        /\ \A n \in DOMAIN dfa.next.subsets :
              /\ dfa.next.subsets[n] # <<>>
              /\ \A m \in DOMAIN dfa.next.subsets[n] :
                    dfa.next.subset_map[dfa.next.subsets[n][m] + 1] = n - 1

\* the loop returned a partition in which two equally final states are
\* separated and two other states are joined
C14_Witness ==
    /\ dfa.pc = "converged"
    /\ \E i \in Positions : \E j \in Positions :
          /\ is_final(deref(heap, dfa.states[i + 1]))
                = is_final(deref(heap, dfa.states[j + 1]))
          /\ dfa.next.subset_map[i + 1] # dfa.next.subset_map[j + 1]
    /\ \E i \in Positions : \E j \in Positions :
          i # j /\ dfa.next.subset_map[i + 1] = dfa.next.subset_map[j + 1]

\* C15: the fixed-point loop of dfa_compute_equivalence_sets terminates: once
\* entered, it eventually produces a partition whose subset_map equals the
\* previous one, also when all states are final, none is, or there is none.
C15_LoopTerminates == (dfa.pc = "loop") ~> (dfa.pc = "converged")

\* the loop has ended after three or more passes
C15_Witness == dfa.pc = "converged" /\ dfa.passes >= 3

\* the loop has taken no more than n passes: it has ended within n passes,
\* or it is still running and has taken fewer
WithinPasses(n) ==
    /\ dfa.pc = "converged" => dfa.passes <= n
    /\ dfa.pc = "loop" => dfa.passes < n

-----------------------------------------------------------------------------
(* Claims about fsm_minimize                                               *)

\* genome g with a copy of its final state at position f appended: the copy
\* has the flags of the original and a copy of each of its outgoing
\* transitions; the transitions of g at the positions in R, which all lead to
\* the original, lead to the copy instead
Duplicate(g, f, R) ==
    LET n == Len(g.states)
        redirected == [i \in DOMAIN g.transitions |->
                          IF i \in R THEN [g.transitions[i] EXCEPT !.state_to = n]
                          ELSE g.transitions[i]]
        outgoing == ascending({i \in DOMAIN g.transitions :
                                  g.transitions[i].state_from = f - 1})
        copied == [k \in DOMAIN outgoing |->
                      [g.transitions[outgoing[k]] EXCEPT !.state_from = n]]
    IN  [states |-> Append(g.states, state_gene(n, g.states[f].flag)),
         transitions |-> sort_transitions(redirected \o copied)]

\* every genome obtained from g by duplicating one of its final states
Duplications(g) ==
    UNION {{Duplicate(g, f, R) :
               R \in SUBSET {i \in DOMAIN g.transitions :
                                g.transitions[i].state_to = f - 1}} :
           f \in {f \in DOMAIN g.states : is_final(g.states[f])}}

\* the number of states fsm_minimize returns for the machine translated from g
MinimizedSize(g) ==
    LET tr == fsm_translate(g, 1)
    IN  Len(fsm_minimize(<<tr.arena>>,
                [alphabet |-> alphabet, states |-> tr.states,
                 transitions |-> tr.transitions]).states)

\* the genome is a DFA: validate_genome reports no defect
IsDfa(g) == validate_genome(alphabet, g, allowEmptyFinal) = {}

\* C13: if DFA B is obtained from DFA A by adding copies of final states
\* (same flags, same outgoing transitions), with any of A's transitions
\* redirected to a copy, fsm_minimize returns the same number of states for
\* A and for B.
C13_DuplicatesCollapse ==
    (dfa.pc = "done" /\ IsDfa(genome)) =>
        \A B \in Duplications(genome) :
            /\ MinimizedSize(B) = Len(dfa.merged_states)
            /\ Len(B.states) < MaxDupStates =>
                   \A B2 \in Duplications(B) :
                       MinimizedSize(B2) = Len(dfa.merged_states)

\* a DFA of two states after minimization has been minimized, and one of its
\* duplications has a transition redirected to the copy of a final state
C13_Witness ==
    /\ dfa.pc = "done" /\ IsDfa(genome)
    /\ Len(dfa.merged_states) = 2
    /\ \E B \in Duplications(genome) :
           \E i \in DOMAIN B.transitions :
               /\ B.transitions[i].state_to = Len(genome.states)
               /\ B.transitions[i].state_from < Len(genome.states)

-----------------------------------------------------------------------------
(* Claims about dfa_remove_unreachable                                     *)

\* the elements of a vector, and whether each occurs exactly once
Elements(v) == {v[i] : i \in DOMAIN v}

ExactlyOnce(v) == \A i \in DOMAIN v : \A j \in DOMAIN v : v[i] = v[j] => i = j

\* the states that one transition of ts leads to from a state of S
Targets(h, ts, S) ==
    {deref(h, ts[i]).to : i \in {i \in DOMAIN ts : deref(h, ts[i]).from \in S}}

\* the least set of states that holds the states of S and every state a
\* transition leads to from one of its states
RECURSIVE ReachableFrom(_, _, _)
ReachableFrom(h, ts, S) ==
    IF Targets(h, ts, S) \subseteq S THEN S
    ELSE ReachableFrom(h, ts, S \cup Targets(h, ts, S))

\* C17: dfa_remove_unreachable returns, each exactly once, precisely the
\* states reachable from the first START-flagged state by following
\* transitions from source to target, the start state included, and, each
\* exactly once, precisely the transitions with at least one endpoint in
\* that reachable set; no unreachable state is returned.
C17_ReachableExactlyOnce ==
    LET tr == fsm_translate(genome, 1)
        first_start == tr.starts[1]
        reachable == ReachableFrom(heap, tr.transitions, {first_start})
    IN  (dfa.pc = "reachable" /\ tr.starts # <<>>) =>
            /\ \A i \in DOMAIN dfa.states : dfa.states[i] \in Elements(tr.states)
            /\ Elements(dfa.states) = reachable \cap Elements(tr.states)
            /\ ExactlyOnce(dfa.states)
            /\ Elements(dfa.transitions) =
                   {tr.transitions[i] : i \in
                       {i \in DOMAIN tr.transitions :
                           \/ deref(heap, tr.transitions[i]).from \in Elements(dfa.states)
                           \/ deref(heap, tr.transitions[i]).to \in Elements(dfa.states)}}
            /\ ExactlyOnce(dfa.transitions)

-----------------------------------------------------------------------------
(* Claims about fsm_encode_genome                                          *)

\* the states and transitions the finished call of fsm_encode_genome was
\* given
encode_given ==
    IF dfa.input = "minimized"
    THEN [states |-> dfa.merged_states, transitions |-> dfa.merged_transitions]
    ELSE [states |-> dfa.states, transitions |-> dfa.transitions]

\* the position in the list ss, counted from 0, of the state p points to
PositionOf(ss, p) == (CHOOSE i \in DOMAIN ss : ss[i] = p) - 1

\* the endpoints of every transition are states of the list
EndpointsInList(ss, ts) ==
    \A i \in DOMAIN ts : /\ contains(ss, deref(heap, ts[i]).from)
                         /\ contains(ss, deref(heap, ts[i]).to)

\* C18: fsm_encode_genome with valid_state_ids = false, given states with
\* distinct (possibly gapped) arena ids and transitions whose endpoints are
\* all in the list, returns a genome whose i-th state gene has id i and the
\* label and flags of the i-th given state, whose transitions keep their
\* read/write symbols and have their endpoints rewritten to the list
\* positions of their from/to states, and are sorted on the 4-tuple; with
\* valid_state_ids = true the original ids are kept for states and endpoints.
C18_EncodeRewritesIds ==
    LET ss == encode_given.states
        ts == encode_given.transitions
        new_id(p) == IF dfa.valid_state_ids THEN deref(heap, p).id
                     ELSE PositionOf(ss, p)
        expected == [i \in DOMAIN ts |->
                        transition_gene(new_id(deref(heap, ts[i]).from),
                                        deref(heap, ts[i]).read,
                                        new_id(deref(heap, ts[i]).to),
                                        deref(heap, ts[i]).write)]
    IN  (dfa.input # "none" /\ ~contains(ss, NULL) /\ EndpointsInList(ss, ts)) =>
            /\ dfa.pc = "encoded"
            /\ Len(dfa.encoded.states) = Len(ss)
            /\ \A i \in DOMAIN ss :
                  /\ dfa.encoded.states[i].id = new_id(ss[i])
                  /\ dfa.encoded.states[i].label = deref(heap, ss[i]).label
                  /\ dfa.encoded.states[i].flag = deref(heap, ss[i]).flag
            /\ same_multiset(dfa.encoded.transitions, expected)
            /\ is_sorted(dfa.encoded.transitions)

\* a minimized automaton was encoded with valid_state_ids = false: a state
\* of it has an arena id that is not its position, and a transition ends
\* in such a state
C18_Witness ==
    /\ dfa.pc = "encoded" /\ dfa.input = "minimized" /\ ~dfa.valid_state_ids
    /\ \E i \in DOMAIN dfa.merged_transitions :
          LET to == deref(heap, dfa.merged_transitions[i]).to
          IN  deref(heap, to).id # PositionOf(dfa.merged_states, to)

\* every transition endpoint of the genome is the id of one of its states
EndpointsInRange(g) ==
    \A i \in DOMAIN g.transitions :
        /\ g.transitions[i].state_from < Len(g.states)
        /\ g.transitions[i].state_to < Len(g.states)

\* C19: for every genome G with state id = position and all transition
\* endpoints in range, fsm_encode_genome(fsm_translate(G)) equals G with its
\* transitions sorted.
C19_EncodeInvertsTranslate ==
    (dfa.input = "translated" /\ EndpointsInRange(genome)) =>
        /\ dfa.pc = "encoded"
        /\ dfa.encoded = [states |-> genome.states,
                          transitions |-> sort_transitions(genome.transitions)]

\* a genome of two states and three transitions that are not in sorted
\* order was translated and encoded
C19_Witness ==
    /\ dfa.pc = "encoded" /\ dfa.input = "translated" /\ EndpointsInRange(genome)
    /\ Len(genome.states) = 2 /\ Len(genome.transitions) = 3
    /\ ~is_sorted(genome.transitions)
    /\ \E i \in DOMAIN genome.transitions :
          genome.transitions[i].state_from # genome.transitions[i].state_to

-----------------------------------------------------------------------------
(* Claims about genome_to_str and genome_from_str                          *)

\* the ids and flags of the state genes, labels left out
IdsAndFlags(ss) == [i \in DOMAIN ss |-> <<ss[i].id, ss[i].flag>>]

\* C20: for every genome G (state id = index), genome_from_str(
\* genome_to_str(G)), with both sides canonically sorted, equals G in state
\* ids, state flags and transitions (labels excluded); on decode the id of
\* each state is its position and the fields are read in the order
\* n_states, flags, n_transitions, then from/read/to/write per transition.
C20_TextRoundTrip ==
    /\ (txt.pc \in {"decoded", "undefined"} /\ ~txt.given) =>
          /\ txt.pc = "decoded"
          /\ IdsAndFlags(txt.decoded.states) = IdsAndFlags(genome.states)
          /\ sort_transitions(txt.decoded.transitions)
                = sort_transitions(genome.transitions)
    /\ txt.pc = "decoded" =>
          \A i \in DOMAIN txt.decoded.states : txt.decoded.states[i].id = i - 1
    /\ (txt.pc \in {"decoded", "undefined"} /\ txt.str = TestGenomeStr) =>
          /\ txt.pc = "decoded"
          /\ IdsAndFlags(txt.decoded.states) = <<<<0, {}>>, <<1, {}>>>>
          /\ txt.decoded.transitions =
                <<transition_gene(1, 1, 2, 2), transition_gene(1, 0, 1, 0),
                  transition_gene(0, 1, 1, 0)>>

\* a genome of two states, one of them flagged, and two transitions that are
\* not in sorted order and hold a two-digit state id was written and read
C20_Witness ==
    /\ txt.pc = "decoded" /\ ~txt.given
    /\ Len(genome.states) = 2 /\ Len(genome.transitions) = 2
    /\ \E i \in DOMAIN genome.states : genome.states[i].flag # {}
    /\ ~is_sorted(genome.transitions)
    /\ \E i \in DOMAIN genome.transitions : genome.transitions[i].state_from = MaxTxtId

-----------------------------------------------------------------------------
(* Claims about nth_string                                                 *)

\* the value of a number that is small
RECURSIVE value(_)
value(b) == IF b = <<>> THEN 0 ELSE b[1] + 2 * value(Tail(b))

\* the digits of n in base a.n_symbols, the most significant of length digits
\* first
base_digits(a, length, n) ==
    IF a.n_symbols = 2 THEN [i \in 1..length |-> bit(n, length - i + 1)]
    ELSE [i \in 1..length |->
             (value(n) \div a.n_symbols ^ (length - i)) % a.n_symbols]

\* a call of nth_string is over, with an index of a string of the length
NthInRange ==
    /\ word.op = "nth_string" /\ word.pc # "call"
    /\ less(word.n, power(alphabet.n_symbols, word.length))

\* a call of nth_string is over, with an index that is not one of a string of
\* the length
NthBeyond ==
    /\ word.op = "nth_string" /\ word.pc # "call"
    /\ ~less(word.n, power(alphabet.n_symbols, word.length))

\* C21: nth_string(alphabet, length, n) maps every index n in
\* [0, n_symbols^length) to the string whose i-th symbol is the i-th most
\* significant base-n_symbols digit of n (so index 0 gives the string of
\* first symbols, the last index the string of last symbols, and distinct
\* indices give distinct strings).
C21_NthStringDigits ==
    NthInRange =>
        /\ word.pc = "returned"
        /\ word.result = base_digits(alphabet, word.length, word.n)

\* C21 for the strings whose number of indices a double holds exactly
C21_ShortStrings ==
    (NthInRange /\ word.length < DoubleDigits) =>
        /\ word.pc = "returned"
        /\ word.result = base_digits(alphabet, word.length, word.n)

\* C22: nth_string with n >= n_symbols^length fails and returns no symbol
\* sequence; it never yields a sequence with a symbol outside the alphabet.
C22_BeyondRangeFails ==
    NthBeyond =>
        /\ word.pc # "returned"
        /\ \A i \in DOMAIN word.result : word.result[i] < alphabet.n_symbols

\* C22 for the builds whose assert is compiled in: the call does not return
C22_AssertStops ==
    (NthBeyond /\ ~word.ndebug) => word.pc = "aborted"

-----------------------------------------------------------------------------
(* Claims about the run log and about inputs with absent symbols           *)

\* the input has an absent symbol
HasAbsent(input) == \E i \in DOMAIN input : input[i] = NoSymbol

\* the position of the first absent symbol of an input that has one
first_absent(input) ==
    CHOOSE i \in DOMAIN input :
        input[i] = NoSymbol /\ \A j \in 1..(i - 1) : input[j] # NoSymbol

\* C23: a call of fsm_run that is past its sanity checks, on an input with an
\* absent symbol, completes normally: it consumes no symbol from the absent
\* one on, returns a result with ERROR_INVALID_WORD when it stopped at the
\* absent symbol, and leaves the log filled for the consumed prefix.
C23_AbsentSymbolStopsRun ==
    [][(call'.op = "run" /\ PassesPreconditions /\ HasAbsent(call'.input)) =>
       LET input == call'.input
           n == Len(log'.accepted)
       IN  /\ call'.status = "returned"
           /\ n < first_absent(input)
           /\ log'.accepted = SubSeq(input, 1, n)
           /\ Len(log'.trace) = n /\ Len(log'.output) = n
           /\ n = first_absent(input) - 1 =>
                 "ERROR_INVALID_WORD" \in call'.result
      ]_vars

\* what the code does instead: no such call completes
C23_AbsentSymbolUndefined ==
    [][(call'.op = "run" /\ PassesPreconditions /\ HasAbsent(call'.input)) =>
          call'.status = "undefined"]_vars

\* the log of a call that is past the sanity checks describes that call
LogOfRun(input) ==
    LET n == Len(log'.accepted)
    IN  /\ log'.input = input
        /\ n <= Len(input)
        /\ log'.accepted = SubSeq(input, 1, n)
        /\ Len(log'.trace) = n /\ Len(log'.output) = n
        /\ \A i \in 1..n :
              /\ log'.output[i] = deref(heap, log'.trace[i]).write
              /\ log'.output[i] \in 0..(alphabet.n_symbols - 1)

\* fsm_run fails one of its sanity checks in this state
FailsPreconditions ==
    \/ ~fsm.initialized
    \/ fsm.current_state = NULL
    \/ live(released, fsm.current_state) /\ ~is_start(deref(heap, fsm.current_state))

\* C24: the run log describes only the latest call. After every fsm_run
\* that passes its preconditions log.input is the complete input, log.accepted
\* the consumed prefix, trace, accepted and output have the same length, at
\* most the length of the input, and output[i] is the alphabet symbol with id
\* trace[i].write, whatever the log held before; after a run that failed a
\* precondition trace, accepted and output are empty.
C24_LogDescribesLatestRun ==
    [][call'.op = "run" =>
        /\ PassesPreconditions =>
              call'.status = "returned" /\ LogOfRun(call'.input)
        /\ FailsPreconditions =>
              log'.trace = <<>> /\ log'.accepted = <<>> /\ log'.output = <<>>
      ]_vars

\* C24 for the calls that return, on inputs without absent symbols
C24_LogOfReturnedRuns ==
    [][call'.op = "run" =>
        /\ (PassesPreconditions /\ call'.status = "returned") =>
              LogOfRun(call'.input)
        /\ (PassesPreconditions /\ ~HasAbsent(call'.input)
                /\ EndpointsInRange(genome)) => call'.status = "returned"
        /\ FailsPreconditions =>
              log'.trace = <<>> /\ log'.accepted = <<>> /\ log'.output = <<>>
      ]_vars

\* C25: fsm_run changes nothing of the FSM except current_state: the
\* initialized flag, the genome, the arena of states and transitions, the
\* starting and accepting lists and the transition table are the same after a
\* run (successful, rejected or failed on a precondition) as before it.
C25_RunChangesCurrentStateOnly ==
    [][(call'.op = "run" /\ call'.status = "returned") =>
        /\ fsm' = [fsm EXCEPT !.current_state = fsm'.current_state]
        /\ genome' = genome
        /\ heap' = heap /\ released' = released
      ]_vars

\* a run has taken a transition and ended in another state than the START
\* state it began in
C25_Witness ==
    /\ call.op = "run" /\ call.status = "returned"
    /\ log.trace # <<>>
    /\ fsm.initialized /\ fsm.accepting_states # <<>>
    /\ ~is_start(deref(heap, fsm.current_state))

-----------------------------------------------------------------------------
(* Claims about fsm_init and fsm_reset                                     *)

\* the genome has a transition from state s that reads symbol a
HasTransition(g, s, a) ==
    \E i \in DOMAIN g.transitions :
        g.transitions[i].state_from = s /\ g.transitions[i].symbol_read = a

\* every symbol a transition of the genome reads is one of the alphabet
ReadsInAlphabet(g, a) ==
    \A i \in DOMAIN g.transitions : g.transitions[i].symbol_read < a.n_symbols

\* the machine after fsm_init is the one the genome describes
InitializedFrom(g) ==
    LET arena == heap'[Len(heap')]
        table == fsm'.transition_table
    IN  /\ call'.status = "returned"
        /\ fsm'.initialized
        /\ Len(arena.states) = Len(g.states)
        /\ \A i \in DOMAIN arena.states : arena.states[i].id = i - 1
        /\ Len(arena.transitions) = Len(g.transitions)
        /\ Len(table) = Len(g.states)
        /\ \A s \in DOMAIN table :
              /\ Len(table[s]) = alphabet.n_symbols
              /\ \A a \in DOMAIN table[s] :
                    IF HasTransition(g, s - 1, a - 1)
                    THEN /\ table[s][a] # NULL
                         /\ deref(heap', table[s][a]).read = a - 1
                         /\ deref(heap', deref(heap', table[s][a]).from).id = s - 1
                    ELSE table[s][a] = NULL

\* C26: after fsm_init on a not-yet-initialized FSM whose genome has all
\* transition endpoints in range, initialized is true, the arena holds one
\* state per state gene (id = position) and one transition per transition
\* gene, and transition_table has n_states rows of n_symbols columns, entry
\* [s][a] being a transition with from.id = s and read = a whenever the
\* genome has such a transition and absent otherwise.
C26_InitBuildsTable ==
    [][(call'.op = "init" /\ ~fsm.initialized /\ EndpointsInRange(genome)) =>
          InitializedFrom(genome)]_vars

\* C26 for the genomes whose transitions read symbols of the alphabet
C26_InitOfKnownSymbols ==
    [][(/\ call'.op = "init" /\ ~fsm.initialized /\ EndpointsInRange(genome)
        /\ ReadsInAlphabet(genome, alphabet)) =>
          InitializedFrom(genome)]_vars

\* the first START-flagged state of the machine in arena order, absent when
\* there is none
FirstStart ==
    LET starts == {i \in DOMAIN fsm.states :
                      /\ live(released, fsm.states[i])
                      /\ is_start(deref(heap, fsm.states[i]))}
    IN  IF starts = {} THEN NULL
        ELSE fsm.states[CHOOSE i \in starts : \A j \in starts : i <= j]

HasStart(g) == \E i \in DOMAIN g.states : is_start(g.states[i])

PreconditionErrors ==
    {"ERROR_NOT_INITIALIZED", "ERROR_CURRENT_STATE_NOT_SET",
     "ERROR_NOT_IN_STARTING_STATE"}

\* a fsm_run that directly follows a fsm_reset of an initialized machine
\* with a START state returns none of the precondition errors
RunAfterReset ==
    (/\ call'.op = "run" /\ call.op = "reset" /\ fsm.initialized
     /\ HasStart(genome)) =>
        /\ PassesPreconditions
        /\ call'.status = "returned" => call'.result \cap PreconditionErrors = {}

\* C27: fsm_reset sets current_state to the first START-flagged state in
\* arena order, and to absent when no state is START-flagged; after fsm_init
\* followed by fsm_reset on a genome with a START state the next fsm_run
\* returns none of ERROR_NOT_INITIALIZED, ERROR_CURRENT_STATE_NOT_SET and
\* ERROR_NOT_IN_STARTING_STATE.
C27_ResetToFirstStart ==
    [][/\ call'.op = "reset" =>
             /\ call'.status = "returned"
             /\ fsm'.current_state = FirstStart
       /\ RunAfterReset
      ]_vars

\* C27 for machines that have not been freed
C27_ResetOfLiveMachine ==
    [][/\ (call'.op = "reset" /\ (fsm.initialized \/ fsm.states = <<>>)) =>
             /\ call'.status = "returned"
             /\ fsm'.current_state = FirstStart
       /\ RunAfterReset
      ]_vars

\* what the code does instead for a freed machine that had states
C27_ResetOfFreedMachine ==
    [][(call'.op = "reset" /\ ~fsm.initialized /\ fsm.states # <<>>) =>
          call'.status = "undefined"]_vars

-----------------------------------------------------------------------------
(* Claims about random_genome                                              *)

\* the genome is a well-formed deterministic automaton over the input
\* symbols of the alphabet
WellFormed(g, a, n_states, random_emission) ==
    /\ Len(g.states) = n_states
    /\ \A i \in DOMAIN g.states :
          /\ g.states[i].id = i - 1
          /\ is_start(g.states[i]) <=> i = 1
    /\ \A i \in DOMAIN g.transitions : \A j \in DOMAIN g.transitions :
          (/\ g.transitions[i].state_from = g.transitions[j].state_from
           /\ g.transitions[i].symbol_read = g.transitions[j].symbol_read) => i = j
    /\ \A i \in DOMAIN g.transitions :
          LET t == g.transitions[i]
          IN  /\ t.state_from < n_states /\ t.state_to < n_states
              /\ t.symbol_read < a.n_input_symbols
              /\ t.symbol_write < a.n_input_symbols
              /\ ~random_emission => t.symbol_write = t.symbol_read
    /\ is_sorted(g.transitions)

\* C28: every genome returned by random_genome with n_states >= 1 has state 0
\* as its only START state, state ids equal to positions, at most one
\* transition per (state, input symbol) pair, every endpoint below n_states,
\* every read and written symbol an input symbol (written = read unless
\* random_emission is set) and sorted transitions; validate_genome sets no
\* flag on it other than MISSING_TRANSITIONS, and NO_FINAL_STATES when empty
\* final sets are disallowed.
C28_RandomGenomeWellFormed ==
    rnd.pc = "returned" =>
        /\ WellFormed(genome, alphabet, rnd.n_states, rnd.random_emission)
        /\ ~ts_counter_overrun(alphabet, genome)
        /\ validate_genome(alphabet, genome, allowEmptyFinal)
              \subseteq {"MISSING_TRANSITIONS"}
                 \cup (IF allowEmptyFinal THEN {} ELSE {"NO_FINAL_STATES"})

\* a genome of MaxNStates states was returned that has several transitions,
\* one writing another symbol than it reads, and a FINAL state that is not START
C28_Witness ==
    /\ rnd.pc = "returned" /\ rnd.n_states = MaxNStates
    /\ Len(genome.transitions) >= 2
    /\ \E i \in DOMAIN genome.transitions :
          genome.transitions[i].symbol_write # genome.transitions[i].symbol_read
    /\ \E i \in DOMAIN genome.states :
          i > 1 /\ is_final(genome.states[i])

-----------------------------------------------------------------------------
(* Claims about str_to_symbols and symbols_to_str                          *)

\* the glyphs of an alphabet
Glyphs(a) == {symbols_of(a)[i].glyph : i \in DOMAIN symbols_of(a)}

\* a string without its characters that are no glyphs of the alphabet
RECURSIVE OnlyGlyphs(_, _)
OnlyGlyphs(s, a) ==
    IF s = <<>> THEN <<>>
    ELSE (IF Head(s) \in Glyphs(a) THEN <<Head(s)>> ELSE <<>>)
         \o OnlyGlyphs(Tail(s), a)

\* C29: for every string s, symbols_to_str(str_to_symbols(s, alphabet)) is s
\* without the characters that are no glyphs of the alphabet, so s itself
\* when it is made of glyphs only; for every symbol sequence w over the
\* alphabet, str_to_symbols(symbols_to_str(w), alphabet) = w.
C29_SymbolsRoundTrip ==
    /\ (word.op = "str_to_symbols" /\ word.conversions = 2) =>
          /\ word.str = OnlyGlyphs(word.given, alphabet)
          /\ (\A i \in DOMAIN word.given : word.given[i] \in Glyphs(alphabet)) =>
                word.str = word.given
    /\ (word.op = "str_to_symbols" /\ word.conversions >= 1) =>
          Len(word.symbols) = Len(OnlyGlyphs(word.given, alphabet))
    /\ (word.op = "symbols_to_str" /\ word.conversions = 2) =>
          word.symbols = word.given

\* a string of MaxLength characters with the blank glyph and a character
\* that is no glyph went through both conversions
C29_Witness ==
    /\ word.op = "str_to_symbols" /\ word.conversions = 2
    /\ Len(word.given) = MaxLength /\ Len(word.str) = MaxLength - 1
    /\ \E i \in DOMAIN word.str : word.str[i] = "."

\* a sequence of MaxLength symbols with a blank went through both conversions
C29_WitnessSymbols ==
    /\ word.op = "symbols_to_str" /\ word.conversions = 2
    /\ Len(word.given) = MaxLength
    /\ \E i \in DOMAIN word.given : word.given[i] >= alphabet.n_input_symbols

-----------------------------------------------------------------------------
(* Claims about the Successive generator                                   *)

\* the index of the string the k-th call is said to return, k mod
\* n_symbols^length (k itself for WideLength, k being below the number of
\* strings)
IndexOfCall(a, length, k) ==
    IF length <= MaxLength THEN k % n_strings(a, length) ELSE k

\* a call of operator() is over
GenCalled == word.op = "Successive" /\ word.pc \in {"returned", "undefined", "aborted"}

\* C30: the k-th call (k = 0, 1, 2, ...) of operator() of a Successive
\* generator since its construction or its last reset() returns
\* nth_string(alphabet, length, k mod n_symbols^length): the strings come in
\* index order, the call after the last string returns the 0-th string
\* again, and reset() restarts at the 0-th string.
C30_SuccessiveInIndexOrder ==
    GenCalled =>
        /\ word.pc = "returned"
        /\ word.result =
              nth_string(alphabet, word.length,
                         Bits(IndexOfCall(alphabet, word.length, word.calls - 1)))

\* C30 for the lengths whose number of strings a size_t holds
C30_ShortStrings ==
    (GenCalled /\ word.length < SizeDigits) =>
        /\ word.pc = "returned"
        /\ word.result =
              nth_string(alphabet, word.length,
                         Bits(IndexOfCall(alphabet, word.length, word.calls - 1)))
        /\ word.length > 0 =>
              word.result[word.length] = (word.calls - 1) % alphabet.n_symbols

-----------------------------------------------------------------------------
(* Claims about the partitions of dfa_compute_equivalence_sets             *)

\* a pass of the do-while body has been made
PassMade == dfa.pc \in {"loop", "converged"} /\ dfa.passes >= 1

\* the partition the latest pass has built, and the one it was built from
\* (the two are swapped unless the pass found them equal)
BuiltPartition == IF dfa.pc = "converged" THEN dfa.next ELSE dfa.current

PreviousPartition == IF dfa.pc = "converged" THEN dfa.current ELSE dfa.next

\* every state index lies in exactly one subset, once, subset_map gives the
\* index of that subset, and no subset is empty
WellFormedPartition(p, n_states) ==
    /\ Len(p.subset_map) = n_states
    /\ \A i \in 0..(n_states - 1) :
          /\ p.subset_map[i + 1] # DFA_STATE_NOT_PROCESSED
          /\ p.subset_map[i + 1] \in 0..(Len(p.subsets) - 1)
          /\ \A s \in DOMAIN p.subsets :
                Cardinality({k \in DOMAIN p.subsets[s] : p.subsets[s][k] = i})
                   = (IF s = p.subset_map[i + 1] + 1 THEN 1 ELSE 0)
    /\ \A s \in DOMAIN p.subsets :
          /\ p.subsets[s] # <<>>
          /\ \A k \in DOMAIN p.subsets[s] : p.subsets[s][k] \in 0..(n_states - 1)

\* two states in one subset of p were in one subset of q
Refines(p, q) ==
    \A i \in DOMAIN p.subset_map : \A j \in DOMAIN p.subset_map :
        p.subset_map[i] = p.subset_map[j] => q.subset_map[i] = q.subset_map[j]

\* C31: in dfa_compute_equivalence_sets the partition built by every
\* iteration is well formed (every state index in exactly one subset,
\* subset_map[i] the index of the subset that contains i, no index left at
\* the not-processed marker, no subset empty) and refines the previous one.
C31_PartitionsRefine ==
    PassMade =>
        LET built == BuiltPartition
            previous == PreviousPartition
        IN  /\ WellFormedPartition(built, Len(dfa.states))
            /\ Refines(built, previous)

\* a second pass has split a subset of the partition the first pass built
C31_Witness ==
    /\ PassMade /\ dfa.passes >= 2
    /\ Len(BuiltPartition.subsets) > Len(PreviousPartition.subsets)
    /\ \E s \in DOMAIN PreviousPartition.subsets :
          Len(PreviousPartition.subsets[s]) >= 2


-----------------------------------------------------------------------------
(* Claims about the states and endpoints of mutate_genome's result        *)

\* a transition of g that names a state g does not have
references_missing_state(g) ==
    \E i \in DOMAIN g.transitions :
       \/ g.transitions[i].state_from >= Len(g.states)
       \/ g.transitions[i].state_to >= Len(g.states)

\* C32: every transition of the genome mutate_genome returns has state_from
\* and state_to below the number of states of that genome, for every input
\* genome (also one whose transitions name missing states), every rate
\* profile and every outcome of the draws.
C32_EndpointsOfResultInRange ==
    mut.pc = "done" =>
        \A i \in DOMAIN mutate_result.transitions :
           /\ mutate_result.transitions[i].state_from < Len(mutate_result.states)
           /\ mutate_result.transitions[i].state_to < Len(mutate_result.states)

\* mutate_genome returned one state and a transition for a genome of two
\* states (one was deleted) whose only transition names a state at or above
\* the number of states that are left
C32_Witness ==
    /\ mut.pc = "done"
    /\ Len(genome.states) = 2 /\ Len(mutate_result.states) = 1
    /\ Len(genome.transitions) = 1
    /\ genome.transitions[1].state_from >= 1
    /\ Len(mutate_result.transitions) = 1

\* mutate_genome returned for a genome whose transition names a state the
\* genome does not have
C32_WitnessMissingState ==
    /\ mut.pc = "done"
    /\ references_missing_state(genome)
    /\ Len(mutate_result.states) = Len(genome.states)
    /\ Len(genome.states) >= 1


larger(a, b) == IF a >= b THEN a ELSE b

\* during mutate_states, once the creation step is over: the states beyond
\* the survivors (state_counter counts the survivors)
created_states == Len(mut.states) - mut.state_counter

\* C33: mutate_genome creates at most one state per call, and only when
\* fewer than max_nstates states survived the deletions; its result has at
\* most max(input states, max_nstates) states, at most max_nstates when the
\* input had at most max_nstates, and at least one: when no state survived
\* (or the input was empty) exactly one state is created.
C33_AtMostOneStateCreated ==
    /\ mut.pc \in {"start", "final"} =>
          /\ created_states \in {0, 1}
          /\ created_states = 1 => mut.state_counter < max_nstates
          /\ mut.state_counter = 0 => created_states = 1
          /\ mut.state_counter <= Len(genome.states)
    /\ mut.pc \in {"transitions", "done"} =>
          /\ Len(mut.states) <= larger(Len(genome.states), max_nstates)
          /\ Len(genome.states) <= max_nstates => Len(mut.states) <= max_nstates
          /\ Len(mut.states) >= 1

\* every state of a genome of two states was deleted and one was created
C33_Witness ==
    /\ mut.pc \in {"start", "final"}
    /\ Len(genome.states) = 2
    /\ mut.state_counter = 0
    /\ Len(mut.removed_states) = 2
    /\ created_states = 1

\* a genome of more than max_nstates states kept them all
C33_WitnessAboveMax ==
    /\ mut.pc = "done"
    /\ Len(genome.states) > max_nstates
    /\ Len(mutate_result.states) = Len(genome.states)


-----------------------------------------------------------------------------
(* Claims about the references a finite_state_machine holds                *)

\* the arena of the machine: the one of the latest fsm_init, none once the
\* machine is freed
current_arena == IF fsm.initialized THEN Len(heap) ELSE 0

\* absent, or a state of the current arena that is not released
AbsentOrLive(p) ==
    p = NULL \/ (live(released, p) /\ p.kind = "state" /\ p.arena = current_arena)

AllAbsentOrLive(v) == \A i \in DOMAIN v : AbsentOrLive(v[i])

\* a run of a machine that was initialized again after fsm_free reads the
\* released state that current_state still points to
C34_RunReadsReleasedState ==
    /\ call.op = "run" /\ call.status = "undefined"
    /\ fsm.initialized
    /\ fsm.current_state # NULL /\ ~live(released, fsm.current_state)

\* C34: in every state that sequences of fsm_init, fsm_reset, fsm_run and
\* fsm_free reach, current_state and every entry of states, starting_states
\* and accepting_states is absent or a live state of the current arena, and
\* no call has followed a reference to a released state.
C34_NoReleasedReference ==
    /\ ~C34_RunReadsReleasedState
    /\ call.status = "returned" =>
          /\ AbsentOrLive(fsm.current_state)
          /\ AllAbsentOrLive(fsm.states)
          /\ AllAbsentOrLive(fsm.starting_states)
          /\ AllAbsentOrLive(fsm.accepting_states)

\* the part of C34 that holds: the entries of fsm.states are absent or live
\* (fsm_free stores nullptr for each state it deletes)
C34_StatesAbsentOrLive ==
    \A i \in DOMAIN fsm.states :
        fsm.states[i] = NULL \/ live(released, fsm.states[i])

\* what the code does instead: fsm_free leaves current_state and both
\* derived lists pointing at the states it has deleted
C34_FreeLeavesReferences ==
    [][(call'.op = "free" /\ fsm.initialized) =>
          /\ fsm'.current_state = fsm.current_state
          /\ fsm'.starting_states = fsm.starting_states
          /\ fsm'.accepting_states = fsm.accepting_states
          /\ \A i \in DOMAIN fsm.starting_states :
                ~live(released', fsm'.starting_states[i])]_vars

-----------------------------------------------------------------------------
(* Claims about the transition table after fsm_init                        *)

\* every entry [s][a] of the table is a transition of the latest arena with
\* from.id = s and read = a, and is absent when the genome has no such
\* transition
TableMatchesLatestArena ==
    \A s \in DOMAIN fsm.transition_table :
    \A a \in DOMAIN fsm.transition_table[s] :
        LET t == fsm.transition_table[s][a]
        IN  /\ t # NULL =>
                  /\ t.kind = "transition" /\ t.arena = Len(heap)
                  /\ deref(heap, t).read = a - 1
                  /\ deref(heap, deref(heap, t).from).id = s - 1
            /\ ~HasTransition(genome, s - 1, a - 1) => t = NULL

\* C35: after a sequence of fsm_init, fsm_free and replacements of
\* fsm.genome that ends with fsm_init, also one on a machine that is still
\* initialized, every entry of transition_table that is not absent is a
\* transition of the arena of that fsm_init with from.id = s and read = a,
\* and every entry the genome has no transition for is absent.
C35_TableMatchesLatestInit ==
    (call.op = "init" /\ call.status = "returned") => TableMatchesLatestArena

\* C35 for fsm_init on machines that are not initialized: new ones and freed
\* ones
C35_InitOfUninitialized ==
    [][(call'.op = "init" /\ call'.status = "returned" /\ ~fsm.initialized) =>
          TableMatchesLatestArena']_vars

\* what the code does instead: fsm_init of an initialized machine keeps the
\* entries of the rows and columns the table had, where the new genome has
\* no transition
C35_InitKeepsEntries ==
    [][(call'.op = "init" /\ call'.status = "returned" /\ fsm.initialized) =>
          \A s \in DOMAIN fsm'.transition_table :
          \A a \in DOMAIN fsm'.transition_table[s] :
              (~HasTransition(genome, s - 1, a - 1) /\ s <= Len(fsm.transition_table))
                  => fsm'.transition_table[s][a] = fsm.transition_table[s][a]]_vars

\* fsm_init of an initialized machine returned with an entry of the table
\* that is a transition of the previous arena
C35_StaleEntry ==
    /\ call.op = "init" /\ call.status = "returned"
    /\ \E s \in DOMAIN fsm.transition_table :
       \E a \in DOMAIN fsm.transition_table[s] :
          /\ fsm.transition_table[s][a] # NULL
          /\ fsm.transition_table[s][a].arena < Len(heap)
          /\ ~HasTransition(genome, s - 1, a - 1)


-----------------------------------------------------------------------------
(* Claims about the automaton fsm_minimize returns                         *)

MaxWord == 3

\* the machine that fsm_init and fsm_reset make of genome g, with its arena
machine_of(g, a) ==
    LET tr == fsm_translate(g, 1)
        h == <<tr.arena>>
    IN  [heap |-> h,
         fsm |-> [new_fsm EXCEPT
                     !.initialized = TRUE,
                     !.states = tr.states,
                     !.transitions = tr.transitions,
                     !.starting_states = tr.starts,
                     !.accepting_states = tr.accepting,
                     !.transition_table = init_transition_table(<<>>, tr, a.n_symbols),
                     !.current_state = get_initial_state(h, tr.states, 1)]]

\* what fsm_run returns for the input on machine m
run_result(m, a, input) ==
    IF precondition_flags(m.fsm, m.heap) # OK THEN precondition_flags(m.fsm, m.heap)
    ELSE run_body(m.fsm, m.heap, no_release, a, input).result

\* the strings over the input symbols of a, up to MaxWord symbols
InputWords(a) == SeqsUpTo(0..(a.n_input_symbols - 1), MaxWord)

\* fsm_run returns OK on the same strings for the machines of g and of m
SameLanguage(g, m, a) ==
    LET original == machine_of(g, a)
        minimized == machine_of(m, a)
    IN  \A w \in InputWords(a) :
           (run_result(original, a, w) = OK) <=> (run_result(minimized, a, w) = OK)

\* fsm_encode_genome(fsm_minimize(fsm)) has returned
MinimizedAndEncoded ==
    dfa.pc = "encoded" /\ dfa.input = "minimized" /\ ~dfa.valid_state_ids

\* dfa_merge_equivalent_sets has dropped a state
StatesMerged == Len(dfa.merged_states) < Len(dfa.states)

\* C36: for a machine built from a valid deterministic genome, the machine
\* built from fsm_encode_genome(fsm_minimize(fsm)) accepts the same strings
\* over the input symbols: fsm_run returns OK on the one iff on the other.
C36_MinimizePreservesLanguage ==
    (MinimizedAndEncoded /\ IsDfa(genome)) =>
        SameLanguage(genome, dfa.encoded, alphabet)

\* C36 for the automata whose reachable states are pairwise distinguishable:
\* only unreachable states are removed
C36_WhenNothingMerged ==
    (MinimizedAndEncoded /\ IsDfa(genome) /\ ~StatesMerged) =>
        SameLanguage(genome, dfa.encoded, alphabet)

\* a string the original accepts and the minimized machine does not
C36_LanguageShrinks ==
    /\ MinimizedAndEncoded /\ IsDfa(genome) /\ StatesMerged
    /\ \E w \in InputWords(alphabet) :
          /\ run_result(machine_of(genome, alphabet), alphabet, w) = OK
          /\ run_result(machine_of(dfa.encoded, alphabet), alphabet, w) # OK


\* the subset of the final partition that holds the state p of dfa.states
ClassOf(p) == dfa.next.subset_map[PositionOf(dfa.states, p) + 1]

\* the flags validate_genome must not report for a minimized automaton
ClosureDefects ==
    {"TRANSITION_SOURCE_UNKNOWN", "TRANSITION_TARGET_UNKNOWN",
     "MISSING_STARTING_STATE", "MULTIPLE_STARTING_STATES", "IS_NFA"}

\* C37: for a machine built from a valid deterministic genome, the state
\* list fsm_minimize returns holds the START state of the machine as its
\* only START-flagged state and one state of every equivalence class of the
\* reachable states, both endpoints of every returned transition are in
\* that list, and fsm_encode_genome of the result has the ids 0, 1, ... and
\* none of the flags for unknown endpoints, a missing or multiple start
\* state or IS_NFA from validate_genome.
C37_MinimizedIsClosed ==
    /\ (dfa.pc = "done" /\ IsDfa(genome)) =>
          LET tr == fsm_translate(genome, 1)
              ms == dfa.merged_states
              mt == dfa.merged_transitions
          IN  /\ contains(ms, get_initial_state(heap, tr.states, 1))
              /\ Cardinality({i \in DOMAIN ms : is_start(deref(heap, ms[i]))}) = 1
              /\ ExactlyOnce(ms)
              /\ Elements(ms) \subseteq Elements(dfa.states)
              /\ \A i \in DOMAIN dfa.states :
                    Cardinality({k \in DOMAIN ms :
                                    ClassOf(ms[k]) = ClassOf(dfa.states[i])}) = 1
              /\ \A i \in DOMAIN mt :
                    /\ contains(ms, deref(heap, mt[i]).from)
                    /\ contains(ms, deref(heap, mt[i]).to)
    /\ (MinimizedAndEncoded /\ IsDfa(genome)) =>
          /\ \A i \in DOMAIN dfa.encoded.states : dfa.encoded.states[i].id = i - 1
          /\ ~ts_counter_overrun(alphabet, dfa.encoded)
          /\ validate_genome(alphabet, dfa.encoded, allowEmptyFinal)
                \cap ClosureDefects = {}

\* the result of fsm_minimize was encoded for an automaton of which a state
\* was merged into its representative and a transition of a reachable state
\* was left out
C37_Witness ==
    /\ MinimizedAndEncoded /\ IsDfa(genome) /\ StatesMerged
    /\ Len(dfa.merged_transitions) < Len(dfa.transitions)
    /\ Len(dfa.merged_transitions) >= 1


-----------------------------------------------------------------------------
(* Claims about the trace of fsm_run and about runs that follow a run      *)

\* the trace of the run is a path from the state the run started in to the
\* state it ended in, reading the input symbol by symbol
ConnectedPath ==
    LET trace == log'.trace
        n == Len(trace)
    IN  /\ n <= Len(call'.input)
        /\ n >= 1 => deref(heap, trace[1]).from = fsm.current_state
        /\ \A i \in 1..(n - 1) :
              deref(heap, trace[i]).to = deref(heap, trace[i + 1]).from
        /\ \A i \in 1..n : deref(heap, trace[i]).read = call'.input[i]
        /\ fsm'.current_state =
              IF n = 0 THEN fsm.current_state ELSE deref(heap, trace[n]).to

\* C38: after a run that passes its preconditions, trace[0].from is the
\* state the run started in, trace[i].to = trace[i+1].from, trace[i].read is
\* the id of the i-th input symbol, and current_state is the target of the
\* last trace entry, or the starting state when the trace is empty.
C38_TraceIsConnectedPath ==
    [][(call'.op = "run" /\ PassesPreconditions /\ call'.status = "returned") =>
          ConnectedPath]_vars

\* C38 for the runs that start in a state of the arena of the latest
\* fsm_init
C38_TraceInLatestArena ==
    [][(/\ call'.op = "run" /\ PassesPreconditions /\ call'.status = "returned"
        /\ fsm.current_state.arena = Len(heap)) => ConnectedPath]_vars

\* what the code does instead: fsm_init leaves current_state in the arena
\* of the earlier fsm_init; a run from there takes the transitions of the
\* latest arena, none of which leaves the state the run started in
C38_RunFromEarlierArena ==
    [][(/\ call'.op = "run" /\ PassesPreconditions /\ call'.status = "returned"
        /\ fsm.current_state.arena < Len(heap) /\ log'.trace # <<>>) =>
          /\ log'.trace[1].arena = Len(heap)
          /\ deref(heap, log'.trace[1]).from # fsm.current_state]_vars

\* the latest call was a fsm_run that passed its sanity checks, returned and
\* ended in a state that is not START-flagged
RunEndedOutsideStart ==
    /\ call.op = "run" /\ call.status = "returned"
    /\ call.result \cap PreconditionErrors = {}
    /\ live(released, fsm.current_state)
    /\ ~is_start(deref(heap, fsm.current_state))

\* a fsm_run directly after that run fails on the third sanity check
SecondRunRefused ==
    (RunEndedOutsideStart /\ call'.op = "run") =>
        FailsWith("ERROR_NOT_IN_STARTING_STATE")

\* after this fsm_reset, fsm_run on the input of that run passes the sanity
\* checks and gives the flags, the trace and the output of that run
SameRunAfterReset ==
    LET st == run_body(fsm', heap', released', alphabet, call.input)
    IN  /\ call'.status = "returned"
        /\ precondition_flags(fsm', heap') = OK
        /\ ~st.undefined
        /\ st.result = call.result
        /\ st.trace = log.trace
        /\ st.output = log.output

\* the trace of the latest run begins in the state fsm_reset selects
RunBeganInFirstStart ==
    log.trace # <<>> /\ deref(heap, log.trace[1]).from = FirstStart

\* C39 as claimed: after a run that ended in a state that is not
\* START-flagged, a fsm_run without a fsm_reset in between returns exactly
\* ERROR_NOT_IN_STARTING_STATE, consumes nothing and leaves current_state
\* unchanged, and after a fsm_reset the same input gives the same flags,
\* trace and output as in that run.
C39_Original ==
    [][/\ SecondRunRefused
       /\ (RunEndedOutsideStart /\ call'.op = "reset") => SameRunAfterReset
      ]_vars

\* C39 amended: the same, the second part for a first run whose trace begins
\* in the first START-flagged state of the machine, the state fsm_reset
\* selects.
C39_NoRewindWithoutReset ==
    [][/\ SecondRunRefused
       /\ (RunEndedOutsideStart /\ RunBeganInFirstStart /\ call'.op = "reset") =>
             SameRunAfterReset
      ]_vars

\* fsm_reset has returned after a run of a machine with two START-flagged
\* states that began in the first of them, took two transitions and ended
\* in the state that is not START-flagged
C39_Witness ==
    /\ call.op = "reset" /\ call.status = "returned"
    /\ fsm.initialized /\ Len(fsm.starting_states) = 2
    /\ Len(log.trace) = 2
    /\ deref(heap, log.trace[1]).from = fsm.current_state
    /\ is_start(deref(heap, deref(heap, log.trace[1]).to))
    /\ ~is_start(deref(heap, deref(heap, log.trace[2]).to))
    /\ released = no_release

\* a run that began in the second START-flagged state has ended in the state
\* that is not START-flagged
C39_RunFromSecondStart ==
    /\ RunEndedOutsideStart
    /\ log.trace # <<>>
    /\ deref(heap, log.trace[1]).from # FirstStart
    /\ deref(heap, log.trace[1]).from.arena = Len(heap)

=============================================================================
